---- MODULE Spec2Model ----
(***************************************************************************)
(* Hierarchical state engine (reference/spawn-engine.js): one engine       *)
(* instance (SpawnManager + EntityManager behind the SpawnEngine facade)   *)
(* driving one entity through its public operations.                       *)
(*                                                                         *)
(* Numbers are integers; one clock unit is one second (the source keeps    *)
(* milliseconds and multiplies durations by 1000).  Write-only fields      *)
(* (createdAt, lastRoll, appliedAt, _internal.log, name) are left out.     *)
(* Derived values are floats in the source: they are kept as exact         *)
(* rationals plus the non-finite values a division can produce.            *)
(***************************************************************************)
EXTENDS Integers, Sequences, FiniteSets, TLC

VARIABLES config, entity, stored, active, history, now, mgr

vars == <<config, entity, stored, active, history, now, mgr>>

(***************************************************************************)
(* Bounds of the model.                                                    *)
(***************************************************************************)
MaxTime == 1
MaxSnapshots == 1

(***************************************************************************)
(* Small helpers for JavaScript idioms.                                    *)
(***************************************************************************)
\* r.f ?? d on an object with optional keys
Get(r, f, d) == IF f \in DOMAIN r THEN r[f] ELSE d

Has(r, f) == f \in DOMAIN r

\* Array.prototype.includes
Includes(s, x) == \E i \in DOMAIN s : s[i] = x

\* Array.prototype.indexOf, 1-based; 0 when absent
IndexOf(s, x) == IF Includes(s, x) THEN CHOOSE i \in DOMAIN s : s[i] = x /\ \A j \in DOMAIN s : s[j] = x => i <= j ELSE 0

\* arr.splice(i, 1)
SpliceAt(s, i) == [j \in 1..(Len(s) - 1) |-> IF j < i THEN s[j] ELSE s[j + 1]]

\* const i = arr.indexOf(x); if (i > -1) arr.splice(i, 1)
RemoveFirst(s, x) == IF Includes(s, x) THEN SpliceAt(s, IndexOf(s, x)) ELSE s

Max2(a, b) == IF a >= b THEN a ELSE b

Min2(a, b) == IF a <= b THEN a ELSE b

Abs(a) == IF a < 0 THEN -a ELSE a

RECURSIVE Gcd(_, _)
Gcd(a, b) == IF b = 0 THEN a ELSE Gcd(b, a % b)

(***************************************************************************)
(* Float values of derived nodes: an exact rational n/d (d > 0), or one of *)
(* the non-finite results of a float division, or null (what JSON makes of *)
(* a non-finite number).                                                   *)
(***************************************************************************)
Rat(n, d) == LET g == Gcd(Abs(n), Abs(d)) IN [k |-> "num", n |-> (IF d < 0 THEN -n ELSE n) \div g, d |-> Abs(d) \div g]

Num(n) == [k |-> "num", n |-> n, d |-> 1]

PosInf == [k |-> "inf", n |-> 1, d |-> 0]

NegInf == [k |-> "inf", n |-> -1, d |-> 0]

NaN == [k |-> "nan", n |-> 0, d |-> 0]

Null == [k |-> "null", n |-> 0, d |-> 0]

\* a / b on JavaScript numbers
FloatDiv(a, b) == IF b # 0 THEN Rat(a, b) ELSE IF a > 0 THEN PosInf ELSE IF a < 0 THEN NegInf ELSE NaN

\* x < y on floats (false when either is NaN)
FloatLess(x, y) ==
    IF x.k = "nan" \/ y.k = "nan" THEN FALSE
    ELSE IF x.k = "inf" /\ y.k = "inf" THEN x.n < y.n
    ELSE IF x.k = "inf" THEN x.n < 0
    ELSE IF y.k = "inf" THEN y.n > 0
    ELSE x.n * y.d < y.n * x.d

\* Math.min / Math.max on floats: NaN if either argument is NaN
FloatMin(x, y) == IF x.k = "nan" \/ y.k = "nan" THEN NaN ELSE IF FloatLess(y, x) THEN y ELSE x

FloatMax(x, y) == IF x.k = "nan" \/ y.k = "nan" THEN NaN ELSE IF FloatLess(x, y) THEN y ELSE x

\* JSON.parse(JSON.stringify(x)) of a number: non-finite numbers become null
JsonNumber(x) == IF x.k = "num" THEN x ELSE Null

(***************************************************************************)
(* Loaded configurations, in the normalized shape validateAndNormalize     *)
(* produces (node = {id, type, config}; relationship = {sourceId,          *)
(* targetId, type, config, conditions}).  Optional keys are simply absent. *)
(* A formula string "a / b" is kept as its parse [op, left, right].        *)
(***************************************************************************)
\* Threshold trait and modifiers, an exclusive group with a member that has
\* no trigger, compounds fed by modifiers, traits, thresholds and compounds,
\* and a compound that drives a rate.
ConfigSurvival ==
    [id |-> "survival",
     nodes |-> <<
        [id |-> "str", type |-> "attribute", config |-> [min |-> 2, max |-> 2]],
        [id |-> "hunger", type |-> "variable",
         config |-> [min |-> 0, max |-> 4, initial |-> 3, baseRate |-> -1, changeMode |-> "timed", direction |-> "deplete"]],
        [id |-> "mood", type |-> "layer",
         config |-> [order |-> 0, selection |-> [mode |-> "weighted", maxItems |-> 2], timing |-> [rollAt |-> "never"], traitIds |-> <<"grumpy">>]],
        [id |-> "grumpy", type |-> "trait",
         config |-> [layerId |-> "mood",
                     selection |-> [mode |-> "threshold",
                                    trigger |-> [target |-> "hunger", operator |-> "<=", value |-> 1],
                                    autoRemove |-> [target |-> "hunger", operator |-> ">=", value |-> 3]]]],
        [id |-> "peckish", type |-> "modifier",
         config |-> [durationType |-> "permanent",
                     trigger |-> [type |-> "threshold", static |-> TRUE,
                                  conditions |-> <<[target |-> "hunger", operator |-> "<=", value |-> 3]>>],
                     exclusiveWith |-> <<"starving">>]],
        [id |-> "starving", type |-> "modifier",
         config |-> [durationType |-> "permanent",
                     trigger |-> [type |-> "threshold", static |-> TRUE,
                                  conditions |-> <<[target |-> "hunger", operator |-> "<=", value |-> 1]>>],
                     exclusiveWith |-> <<"peckish", "sated">>]],
        [id |-> "sated", type |-> "modifier",
         config |-> [durationType |-> "ticks", duration |-> 2, stacking |-> "refresh", exclusiveWith |-> << >>]],
        [id |-> "doomed", type |-> "compound", config |-> [requires |-> <<[id |-> "hangry"]>>]],
        [id |-> "hangry", type |-> "compound",
         config |-> [requires |-> <<[modifier |-> "starving"], [item |-> "grumpy"]>>, requirementLogic |-> "all"]],
        [id |-> "weak", type |-> "compound",
         config |-> [requires |-> <<[id |-> "hunger", operator |-> "<=", value |-> 2]>>]],
        [id |-> "vigor", type |-> "derived", config |-> [formula |-> [op |-> "/", left |-> "str", right |-> "hunger"]]]
     >>,
     relationships |-> <<
        [sourceId |-> "starving", targetId |-> "hunger", type |-> "rate_modifier",
         config |-> [operation |-> "add", value |-> -1, scaling |-> "flat"], conditions |-> << >>],
        [sourceId |-> "hangry", targetId |-> "hunger", type |-> "rate_modifier",
         config |-> [operation |-> "add", value |-> -1, scaling |-> "flat"], conditions |-> << >>]
     >>,
     presets |-> << >>]

\* Weighted and allMatching layers, one-sided incompatibility, a spawn-time
\* layer feeding an attribute range, a variable without `initial`, a
\* compound on a trait, a preset with forced traits.
ConfigParty ==
    [id |-> "party",
     nodes |-> <<
        [id |-> "temper", type |-> "layer",
         config |-> [order |-> 0, selection |-> [mode |-> "weighted", maxItems |-> 2, initialRolls |-> 1],
                     timing |-> [rollAt |-> "spawn"], traitIds |-> <<"brave", "coward">>]],
        [id |-> "str", type |-> "attribute", config |-> [min |-> 1, max |-> 1, spawnOrder |-> 1]],
        [id |-> "stamina", type |-> "variable", config |-> [min |-> 0, max |-> 3]],
        [id |-> "zone", type |-> "context", config |-> [default |-> "town"]],
        [id |-> "brave", type |-> "trait",
         config |-> [layerId |-> "temper", selection |-> [baseWeight |-> 10], incompatibleWith |-> <<"coward">>]],
        [id |-> "coward", type |-> "trait", config |-> [layerId |-> "temper"]],
        [id |-> "gear", type |-> "layer",
         config |-> [order |-> 2, selection |-> [mode |-> "allMatching", maxItems |-> 1],
                     timing |-> [rollAt |-> "manual"], traitIds |-> <<"sword", "shield">>]],
        [id |-> "sword", type |-> "trait",
         config |-> [layerId |-> "gear",
                     eligibility |-> <<[type |-> "attribute", target |-> "str", operator |-> ">=", value |-> 2]>>]],
        [id |-> "shield", type |-> "trait",
         config |-> [layerId |-> "gear",
                     eligibility |-> <<[type |-> "context", target |-> "zone", operator |-> "==", value |-> "town"]>>]],
        [id |-> "armed", type |-> "compound", config |-> [requires |-> <<[string |-> "sword"]>>]]
     >>,
     relationships |-> <<
        [sourceId |-> "brave", targetId |-> "str", type |-> "value_modifier",
         config |-> [operation |-> "add", value |-> 1, scaling |-> "flat"], conditions |-> << >>]
     >>,
     presets |-> <<[id |-> "hero", forceTraits |-> <<"brave", "sword">>, attributes |-> [str |-> 2]]>>]

\* Timed, stacking and tick-counted modifiers, a threshold modifier that is
\* not static, an `initial` above max, a clamped derived value, an action
\* with a cost and a cooldown.
ConfigBuffs ==
    [id |-> "buffs",
     nodes |-> <<
        [id |-> "energy", type |-> "variable",
         config |-> [min |-> 0, max |-> 2, initial |-> 3, baseRate |-> 1, changeMode |-> "timed", direction |-> "accumulate"]],
        [id |-> "inspired", type |-> "modifier",
         config |-> [durationType |-> "timed", duration |-> 1, stacking |-> "stack", maxStacks |-> 2, exclusiveWith |-> << >>]],
        [id |-> "tired", type |-> "modifier",
         config |-> [durationType |-> "ticks", duration |-> 2,
                     trigger |-> [type |-> "threshold",
                                  conditions |-> <<[target |-> "energy", operator |-> "<=", value |-> 0]>>, logic |-> "all"],
                     exclusiveWith |-> << >>]],
        [id |-> "power", type |-> "derived",
         config |-> [formula |-> [op |-> "*", left |-> "energy", right |-> "energy"], min |-> 0, max |-> 3]],
        [id |-> "sprint", type |-> "action", config |-> [cooldown |-> 2, costs |-> [energy |-> 1]]]
     >>,
     relationships |-> <<
        [sourceId |-> "inspired", targetId |-> "energy", type |-> "rate_modifier",
         config |-> [operation |-> "multiply", value |-> 2, scaling |-> "flat"], conditions |-> << >>],
        [sourceId |-> "tired", targetId |-> "energy", type |-> "rate_modifier",
         config |-> [operation |-> "add", value |-> -1, scaling |-> "flat"], conditions |-> << >>]
     >>,
     presets |-> << >>]

\* pickN and firstMatch layers, a trait that replaces another, a trait listed
\* by a layer other than its own.
ConfigDraft ==
    [id |-> "draft",
     nodes |-> <<
        [id |-> "hand", type |-> "layer",
         config |-> [order |-> 0, selection |-> [mode |-> "pickN", pickCount |-> 2, maxItems |-> 2],
                     timing |-> [rollAt |-> "create"], traitIds |-> <<"ace", "king", "queen">>]],
        [id |-> "ace", type |-> "trait", config |-> [layerId |-> "hand"]],
        [id |-> "king", type |-> "trait", config |-> [layerId |-> "hand"]],
        [id |-> "queen", type |-> "trait", config |-> [layerId |-> "hand", selection |-> [baseWeight |-> 5]]],
        [id |-> "stance", type |-> "layer",
         config |-> [order |-> 1, selection |-> [mode |-> "firstMatch"], timing |-> [rollAt |-> "manual"],
                     traitIds |-> <<"guard", "strike", "queen">>]],
        [id |-> "guard", type |-> "trait", config |-> [layerId |-> "stance"]],
        [id |-> "strike", type |-> "item", config |-> [layerId |-> "stance", selection |-> [replaces |-> <<"guard">>]]],
        [id |-> "royal", type |-> "compound",
         config |-> [requires |-> <<[trait |-> "king"], [trait |-> "queen"]>>, requirementLogic |-> "any"]]
     >>,
     relationships |-> << >>,
     presets |-> << >>]

\* A small economy for the state history: a draining variable, a manual
\* modifier that drives its rate, a threshold trait, a compound on the
\* variable, and a derived ratio whose denominator can reach zero.
ConfigLedger ==
    [id |-> "ledger",
     nodes |-> <<
        [id |-> "rate", type |-> "attribute", config |-> [min |-> 1, max |-> 1]],
        [id |-> "gold", type |-> "variable",
         config |-> [min |-> 0, max |-> 2, initial |-> 1, baseRate |-> -1, changeMode |-> "timed", direction |-> "deplete"]],
        [id |-> "outlook", type |-> "layer",
         config |-> [order |-> 0, selection |-> [mode |-> "weighted"], timing |-> [rollAt |-> "never"], traitIds |-> <<"worried">>]],
        [id |-> "worried", type |-> "trait",
         config |-> [layerId |-> "outlook",
                     selection |-> [mode |-> "threshold",
                                    trigger |-> [target |-> "gold", operator |-> "<=", value |-> 0],
                                    autoRemove |-> [target |-> "gold", operator |-> ">=", value |-> 2]]]],
        [id |-> "taxed", type |-> "modifier", config |-> [durationType |-> "permanent", exclusiveWith |-> << >>]],
        [id |-> "broke", type |-> "compound",
         config |-> [requires |-> <<[id |-> "gold", operator |-> "<=", value |-> 0]>>]],
        [id |-> "yield", type |-> "derived", config |-> [formula |-> [op |-> "/", left |-> "rate", right |-> "gold"]]]
     >>,
     relationships |-> <<
        [sourceId |-> "taxed", targetId |-> "gold", type |-> "rate_modifier",
         config |-> [operation |-> "add", value |-> -1, scaling |-> "flat"], conditions |-> << >>]
     >>,
     presets |-> << >>]

\* An exclusive group of threshold modifiers with "at most" triggers on one
\* variable, closed transitively (bruised - wounded - critical).
ConfigWounds ==
    [id |-> "wounds",
     nodes |-> <<
        [id |-> "hp", type |-> "variable",
         config |-> [min |-> 0, max |-> 5, initial |-> 5, baseRate |-> -1, changeMode |-> "timed", direction |-> "deplete"]],
        [id |-> "bruised", type |-> "modifier",
         config |-> [durationType |-> "permanent",
                     trigger |-> [type |-> "threshold", static |-> TRUE,
                                  conditions |-> <<[target |-> "hp", operator |-> "<=", value |-> 4]>>],
                     exclusiveWith |-> <<"wounded">>]],
        [id |-> "wounded", type |-> "modifier",
         config |-> [durationType |-> "permanent",
                     trigger |-> [type |-> "threshold", static |-> TRUE,
                                  conditions |-> <<[target |-> "hp", operator |-> "<=", value |-> 2]>>],
                     exclusiveWith |-> <<"critical">>]],
        [id |-> "critical", type |-> "modifier",
         config |-> [durationType |-> "permanent",
                     trigger |-> [type |-> "threshold", static |-> TRUE,
                                  conditions |-> <<[target |-> "hp", operator |-> "<", value |-> 1]>>]]]
     >>,
     relationships |-> <<
        [sourceId |-> "wounded", targetId |-> "hp", type |-> "rate_modifier",
         config |-> [operation |-> "add", value |-> -1, scaling |-> "flat"], conditions |-> << >>],
        [sourceId |-> "critical", targetId |-> "hp", type |-> "rate_modifier",
         config |-> [operation |-> "add", value |-> -2, scaling |-> "flat"], conditions |-> << >>]
     >>,
     presets |-> << >>]

\* An exclusive group with "at least" triggers and a threshold modifier
\* outside every group, all three driving the variable's rate.
ConfigVigor ==
    [id |-> "vigor",
     nodes |-> <<
        [id |-> "hp", type |-> "variable",
         config |-> [min |-> 0, max |-> 5, initial |-> 5, baseRate |-> -1, changeMode |-> "timed", direction |-> "deplete"]],
        [id |-> "hale", type |-> "modifier",
         config |-> [durationType |-> "permanent",
                     trigger |-> [type |-> "threshold", static |-> TRUE,
                                  conditions |-> <<[target |-> "hp", operator |-> ">=", value |-> 2]>>],
                     exclusiveWith |-> <<"vigorous">>]],
        [id |-> "vigorous", type |-> "modifier",
         config |-> [durationType |-> "permanent",
                     trigger |-> [type |-> "threshold", static |-> TRUE,
                                  conditions |-> <<[target |-> "hp", operator |-> ">", value |-> 4]>>],
                     exclusiveWith |-> <<"hale">>]],
        [id |-> "alert", type |-> "modifier",
         config |-> [durationType |-> "permanent",
                     trigger |-> [type |-> "threshold", static |-> TRUE,
                                  conditions |-> <<[target |-> "hp", operator |-> "<=", value |-> 3]>>]]]
     >>,
     relationships |-> <<
        [sourceId |-> "hale", targetId |-> "hp", type |-> "rate_modifier",
         config |-> [operation |-> "add", value |-> 2, scaling |-> "flat"], conditions |-> << >>],
        [sourceId |-> "vigorous", targetId |-> "hp", type |-> "rate_modifier",
         config |-> [operation |-> "add", value |-> 3, scaling |-> "flat"], conditions |-> << >>],
        [sourceId |-> "alert", targetId |-> "hp", type |-> "rate_modifier",
         config |-> [operation |-> "add", value |-> -1, scaling |-> "flat"], conditions |-> << >>]
     >>,
     presets |-> << >>]

\* Two tiers of threshold traits on one variable, the deeper tier replacing
\* the shallower one.
ConfigTiers ==
    [id |-> "tiers",
     nodes |-> <<
        [id |-> "food", type |-> "variable",
         config |-> [min |-> 0, max |-> 3, initial |-> 3, baseRate |-> -1, changeMode |-> "timed", direction |-> "deplete"]],
        [id |-> "appetite", type |-> "layer",
         config |-> [order |-> 0, selection |-> [mode |-> "weighted", maxItems |-> 2], timing |-> [rollAt |-> "never"],
                     traitIds |-> <<"hungry", "famished">>]],
        [id |-> "hungry", type |-> "trait",
         config |-> [layerId |-> "appetite",
                     selection |-> [mode |-> "threshold",
                                    trigger |-> [target |-> "food", operator |-> "<=", value |-> 2],
                                    autoRemove |-> [target |-> "food", operator |-> ">=", value |-> 3]]]],
        [id |-> "famished", type |-> "trait",
         config |-> [layerId |-> "appetite",
                     selection |-> [mode |-> "threshold",
                                    trigger |-> [target |-> "food", operator |-> "<=", value |-> 1],
                                    autoRemove |-> [target |-> "food", operator |-> ">=", value |-> 2],
                                    replaces |-> <<"hungry">>]]]
     >>,
     relationships |-> << >>,
     presets |-> << >>]

\* Two spawn-time layers around an attribute: `size` rolls before `might`,
\* `mood` after it and before `speed`; `gear` is rolled by hand only.
ConfigBreed ==
    [id |-> "breed",
     nodes |-> <<
        [id |-> "speed", type |-> "attribute", config |-> [min |-> 1, max |-> 1, spawnOrder |-> 3]],
        [id |-> "mood", type |-> "layer",
         config |-> [order |-> 2, selection |-> [mode |-> "weighted", maxItems |-> 1],
                     timing |-> [rollAt |-> "create"], traitIds |-> <<"angry", "calm">>]],
        [id |-> "might", type |-> "attribute", config |-> [min |-> 1, max |-> 2, spawnOrder |-> 1]],
        [id |-> "size", type |-> "layer",
         config |-> [order |-> 0, selection |-> [mode |-> "weighted", maxItems |-> 1],
                     timing |-> [rollAt |-> "spawn"], traitIds |-> <<"big", "small">>]],
        [id |-> "gear", type |-> "layer",
         config |-> [order |-> 0, selection |-> [mode |-> "weighted", maxItems |-> 1],
                     timing |-> [rollAt |-> "manual"], traitIds |-> <<"boots">>]],
        [id |-> "big", type |-> "trait", config |-> [layerId |-> "size"]],
        [id |-> "small", type |-> "trait", config |-> [layerId |-> "size"]],
        [id |-> "angry", type |-> "trait", config |-> [layerId |-> "mood"]],
        [id |-> "calm", type |-> "trait", config |-> [layerId |-> "mood"]],
        [id |-> "boots", type |-> "trait", config |-> [layerId |-> "gear"]]
     >>,
     relationships |-> <<
        [sourceId |-> "big", targetId |-> "might", type |-> "value_modifier",
         config |-> [operation |-> "add", value |-> 2, scaling |-> "flat"], conditions |-> << >>],
        [sourceId |-> "angry", targetId |-> "might", type |-> "value_modifier",
         config |-> [operation |-> "add", value |-> 10, scaling |-> "flat"], conditions |-> << >>],
        [sourceId |-> "angry", targetId |-> "speed", type |-> "value_modifier",
         config |-> [operation |-> "multiply", value |-> 3, scaling |-> "flat"], conditions |-> << >>],
        [sourceId |-> "small", targetId |-> "speed", type |-> "value_modifier",
         config |-> [operation |-> "add", value |-> 1, scaling |-> "flat"], conditions |-> << >>],
        [sourceId |-> "boots", targetId |-> "speed", type |-> "value_modifier",
         config |-> [operation |-> "add", value |-> 5, scaling |-> "flat"], conditions |-> << >>]
     >>,
     presets |-> << >>]

\* a relationship whose target names no node
DocDangling ==
    [id |-> "dangling",
     nodes |-> <<
        [id |-> "mood", type |-> "layer",
         config |-> [order |-> 0, selection |-> [mode |-> "weighted"], timing |-> [rollAt |-> "spawn"], traitIds |-> <<"angry">>]],
        [id |-> "angry", type |-> "trait", config |-> [layerId |-> "mood"]]
     >>,
     relationships |-> <<[sourceId |-> "angry", targetId |-> "nowhere", type |-> "value_modifier", config |-> [value |-> 1]]>>]

\* a node of a kind the engine does not have
DocUnknownKind ==
    [id |-> "gizmo",
     nodes |-> <<
        [id |-> "might", type |-> "attribute", config |-> [min |-> 1, max |-> 2]],
        [id |-> "widget", type |-> "gizmo"]
     >>]

\* two nodes with one id
DocDuplicate ==
    [id |-> "twice",
     nodes |-> <<
        [id |-> "might", type |-> "attribute", config |-> [min |-> 1, max |-> 1]],
        [id |-> "might", type |-> "attribute", config |-> [min |-> 2, max |-> 3]]
     >>]

\* perPoint relationships, plain and inverted, on a weight, a rate and an
\* attribute range, all scaled by one attribute.
DocShy ==
    [id |-> "shy",
     nodes |-> <<
        [id |-> "sociability", type |-> "attribute", config |-> [min |-> 1, max |-> 3, spawnOrder |-> 0]],
        [id |-> "might", type |-> "attribute", config |-> [min |-> 1, max |-> 2, spawnOrder |-> 1]],
        [id |-> "energy", type |-> "variable",
         config |-> [min |-> 0, max |-> 9, initial |-> 5, baseRate |-> 0, changeMode |-> "timed", direction |-> "deplete"]],
        [id |-> "temper", type |-> "layer",
         config |-> [order |-> 2, selection |-> [mode |-> "weighted", maxItems |-> 1],
                     timing |-> [rollAt |-> "spawn"], traitIds |-> <<"introvert", "extrovert">>]],
        [id |-> "hobby", type |-> "layer",
         config |-> [order |-> 3, selection |-> [mode |-> "weighted", maxItems |-> 2],
                     timing |-> [rollAt |-> "manual"], traitIds |-> <<"chess", "dancing">>]],
        [id |-> "introvert", type |-> "trait", config |-> [layerId |-> "temper", selection |-> [baseWeight |-> 0]]],
        [id |-> "extrovert", type |-> "trait", config |-> [layerId |-> "temper", selection |-> [baseWeight |-> 0]]],
        [id |-> "chess", type |-> "trait", config |-> [layerId |-> "hobby"]],
        [id |-> "dancing", type |-> "trait", config |-> [layerId |-> "hobby"]]
     >>,
     relationships |-> <<
        [sourceId |-> "sociability", targetId |-> "introvert", type |-> "weight_influence",
         config |-> [operation |-> "add", value |-> 2, scaling |-> "perPoint", perPointSource |-> "sociability", invert |-> TRUE]],
        [sourceId |-> "sociability", targetId |-> "extrovert", type |-> "weight_influence",
         config |-> [operation |-> "add", value |-> 2, scaling |-> "perPoint", perPointSource |-> "sociability"]],
        [sourceId |-> "introvert", targetId |-> "energy", type |-> "rate_modifier",
         config |-> [operation |-> "add", value |-> 1, scaling |-> "perPoint", perPointSource |-> "sociability", invert |-> TRUE]],
        [sourceId |-> "sociability", targetId |-> "might", type |-> "value_modifier",
         config |-> [operation |-> "add", value |-> 1, scaling |-> "perPoint", perPointSource |-> "sociability", invert |-> TRUE]]
     >>]

Documents == {ConfigParty, ConfigBreed, DocDangling, DocUnknownKind, DocDuplicate}

\* An exclusive pair with triggers in opposite directions, the member that
\* names its partner declared second; a static modifier triggered by
\* another modifier being active and declared ahead of it; a static
\* modifier triggered by a compound.
ConfigClimate ==
    [id |-> "climate",
     nodes |-> <<
        [id |-> "temp", type |-> "variable",
         config |-> [min |-> 0, max |-> 3, initial |-> 3, baseRate |-> -1, changeMode |-> "timed", direction |-> "deplete"]],
        [id |-> "shiver", type |-> "modifier",
         config |-> [durationType |-> "permanent",
                     trigger |-> [type |-> "threshold", static |-> TRUE,
                                  conditions |-> <<[target |-> "cold", operator |-> "active"]>>],
                     exclusiveWith |-> << >>]],
        [id |-> "mild", type |-> "modifier",
         config |-> [durationType |-> "permanent",
                     trigger |-> [type |-> "threshold", static |-> TRUE,
                                  conditions |-> <<[target |-> "temp", operator |-> ">=", value |-> 1]>>],
                     exclusiveWith |-> << >>]],
        [id |-> "cold", type |-> "modifier",
         config |-> [durationType |-> "permanent",
                     trigger |-> [type |-> "threshold", static |-> TRUE,
                                  conditions |-> <<[target |-> "temp", operator |-> "<=", value |-> 2]>>],
                     exclusiveWith |-> <<"mild">>]],
        [id |-> "frozen", type |-> "compound",
         config |-> [requires |-> <<[id |-> "temp", operator |-> "<=", value |-> 0]>>]],
        [id |-> "numb", type |-> "modifier",
         config |-> [durationType |-> "permanent",
                     trigger |-> [type |-> "threshold", static |-> TRUE,
                                  conditions |-> <<[target |-> "frozen", operator |-> "active"]>>],
                     exclusiveWith |-> << >>]]
     >>,
     relationships |-> << >>,
     presets |-> << >>]

\* Threshold-mode traits listed in an allMatching layer and in a firstMatch
\* layer, next to traits that are rolled.
ConfigMuster ==
    [id |-> "muster",
     nodes |-> <<
        [id |-> "nerve", type |-> "variable",
         config |-> [min |-> 0, max |-> 4, initial |-> 3, baseRate |-> 0, changeMode |-> "manual", direction |-> "none"]],
        [id |-> "size", type |-> "layer",
         config |-> [order |-> 0, selection |-> [mode |-> "weighted", maxItems |-> 1],
                     timing |-> [rollAt |-> "spawn"], traitIds |-> <<"big", "small">>]],
        [id |-> "kit", type |-> "layer",
         config |-> [order |-> 1, selection |-> [mode |-> "allMatching", maxItems |-> 3],
                     timing |-> [rollAt |-> "manual"], traitIds |-> <<"helm", "shaken">>]],
        [id |-> "stance", type |-> "layer",
         config |-> [order |-> 2, selection |-> [mode |-> "firstMatch", maxItems |-> 2],
                     timing |-> [rollAt |-> "manual"], traitIds |-> <<"panic", "steady">>]],
        [id |-> "big", type |-> "trait", config |-> [layerId |-> "size"]],
        [id |-> "small", type |-> "trait", config |-> [layerId |-> "size"]],
        [id |-> "helm", type |-> "trait", config |-> [layerId |-> "kit", incompatibleWith |-> <<"small">>]],
        [id |-> "shaken", type |-> "trait",
         config |-> [layerId |-> "kit",
                     selection |-> [mode |-> "threshold",
                                    trigger |-> [target |-> "nerve", operator |-> "<=", value |-> 1],
                                    autoRemove |-> [target |-> "nerve", operator |-> ">=", value |-> 3]]]],
        [id |-> "panic", type |-> "trait",
         config |-> [layerId |-> "stance",
                     selection |-> [mode |-> "threshold",
                                    trigger |-> [target |-> "nerve", operator |-> "<=", value |-> 0],
                                    autoRemove |-> [target |-> "nerve", operator |-> ">=", value |-> 2]]]],
        [id |-> "steady", type |-> "trait", config |-> [layerId |-> "stance"]]
     >>,
     relationships |-> << >>,
     presets |-> << >>]

Configs == {ConfigSurvival, ConfigParty, ConfigBuffs, ConfigDraft, ConfigLedger}

\* the configurations the state history is exercised on
HistoryConfigs == {ConfigLedger}

(***************************************************************************)
(* Indexes (buildIndexes) and node queries.                                *)
(***************************************************************************)
NodeIds == {config.nodes[i].id : i \in DOMAIN config.nodes}

HasNode(nodeId) == nodeId \in NodeIds

\* nodeIndex.get(nodeId); callers test HasNode first where the source tests
\* for null.  nodeIndex.set keeps the last node declared with an id.
getNode(nodeId) ==
    config.nodes[CHOOSE i \in DOMAIN config.nodes :
                    /\ config.nodes[i].id = nodeId
                    /\ \A j \in DOMAIN config.nodes : config.nodes[j].id = nodeId => j <= i]

\* _nodesByType.get(type) || [] : the nodes of one type in declaration order
getNodesByType(type) == SelectSeq(config.nodes, LAMBDA n : n.type = type)

isTrait(node) == node.type = "trait" \/ node.type = "item"

getTraits == SelectSeq(config.nodes, isTrait)

\* layers sorted by config.order || 0 (stable)
LayerOrder(l) == Get(l.config, "order", 0)

\* layer.config.traitIds mapped to nodes, unknown ids dropped
getLayerTraits(layerId) ==
    IF ~HasNode(layerId) \/ getNode(layerId).type # "layer" THEN << >>
    ELSE LET ids == Get(getNode(layerId).config, "traitIds", << >>)
             known == SelectSeq(ids, HasNode)
         IN [i \in DOMAIN known |-> getNode(known[i])]

\* relationshipIndex.byTarget.get(nodeId) || []
getRelationshipsTo(nodeId) == SelectSeq(config.relationships, LAMBDA r : r.targetId = nodeId)

\* modifiers with trigger.type === 'threshold', in declaration order
thresholdModifiers == SelectSeq(getNodesByType("modifier"), LAMBDA n : Has(n.config, "trigger") /\ Get(n.config.trigger, "type", "") = "threshold")

\* _thresholdTraitsByVar.get(varId) || []
thresholdTraitsByVar(varId) ==
    SelectSeq(getTraits, LAMBDA t : Has(t.config, "selection") /\ Get(t.config.selection, "mode", "") = "threshold"
                                     /\ Has(t.config.selection, "trigger") /\ Get(t.config.selection.trigger, "target", "") = varId)

SeqToSet(s) == {s[i] : i \in DOMAIN s}

\* set.add(x) on an insertion-ordered Set
SetAdd(s, x) == IF Includes(s, x) THEN s ELSE Append(s, x)

\* an insertion-ordered Map of insertion-ordered Sets: [keys, sets]
\* if (!groups.has(a)) groups.set(a, new Set()); groups.get(a).add(b)
ExAdd(map, a, b) ==
    LET keys == SetAdd(map.keys, a)
        old == IF a \in DOMAIN map.sets THEN map.sets[a] ELSE << >>
    IN [keys |-> keys, sets |-> [k \in SeqToSet(keys) |-> IF k = a THEN SetAdd(old, b) ELSE map.sets[k]]]

\* the inner loop of buildIndexes over mod.config.exclusiveWith
RECURSIVE exclusivePartnersLoop(_, _, _, _)
exclusivePartnersLoop(map, modId, partners, j) ==
    IF j > Len(partners) THEN map
    ELSE exclusivePartnersLoop(ExAdd(ExAdd(map, modId, partners[j]), partners[j], modId), modId, partners, j + 1)

\* the outer loop of buildIndexes over _thresholdModifiers
RECURSIVE exclusiveGroupsLoop(_, _)
exclusiveGroupsLoop(map, i) ==
    IF i > Len(thresholdModifiers) THEN map
    ELSE LET ex == Get(thresholdModifiers[i].config, "exclusiveWith", << >>)
         IN exclusiveGroupsLoop(IF Len(ex) > 0 THEN exclusivePartnersLoop(map, thresholdModifiers[i].id, ex, 1) ELSE map, i + 1)

\* _exclusiveGroups: modId -> Set of partner ids
exclusiveGroups == exclusiveGroupsLoop([keys |-> << >>, sets |-> << >>], 1)


(***************************************************************************)
(* Entity records.  entity.layers maps a layer id to [active]; the         *)
(* modifier-state map (_modifierStates) maps an applied modifier id to     *)
(* [stacks, isStatic, expiresAt (0 = null), ticksRemaining (optional)].    *)
(***************************************************************************)
NoEntity ==
    [attributes |-> << >>, variables |-> << >>, contexts |-> << >>, layers |-> << >>,
     modifiers |-> << >>, modifierStates |-> << >>, compounds |-> << >>, derived |-> << >>,
     actions |-> << >>, presetId |-> ""]

\* entity.layers[layerId]?.active || []
LayerActive(e, layerId) == IF layerId \in DOMAIN e.layers THEN e.layers[layerId].active ELSE << >>

\* entity.layers[layerId].active = seq, creating the container when missing
WithLayerActive(e, layerId, seq) ==
    [e EXCEPT !.layers = [l \in DOMAIN e.layers \cup {layerId} |-> IF l = layerId THEN [active |-> seq] ELSE e.layers[l]]]

\* obj[key] = value on a plain object
Put(f, key, value) == [k \in DOMAIN f \cup {key} |-> IF k = key THEN value ELSE f[k]]

\* delete obj[key]
Drop(f, key) == [k \in DOMAIN f \ {key} |-> f[k]]

(***************************************************************************)
(* Node state helpers and condition evaluation (SpawnManager).  The class  *)
(* defines getNodeValue and compareValues twice; the later definitions     *)
(* are the ones in effect.                                                 *)
(***************************************************************************)
isNodeActive(e, nodeId) ==
    IF ~HasNode(nodeId) THEN FALSE
    ELSE LET node == getNode(nodeId) IN
         IF isTrait(node) THEN Includes(LayerActive(e, Get(node.config, "layerId", "undefined")), nodeId)
         ELSE CASE node.type = "modifier" -> Includes(e.modifiers, nodeId)
                [] node.type = "compound" -> Includes(e.compounds, nodeId)
                [] node.type \in {"attribute", "variable", "context"} -> TRUE
                [] OTHER -> FALSE

getNodeValue(e, nodeId) ==
    IF ~HasNode(nodeId) THEN 0
    ELSE LET node == getNode(nodeId) IN
         CASE node.type = "attribute" -> Get(e.attributes, nodeId, 0)
           [] node.type = "variable" -> IF nodeId \in DOMAIN e.variables THEN e.variables[nodeId].value ELSE 0
           [] node.type = "context" -> Get(e.contexts, nodeId, 0)
           [] OTHER -> 0

compareValues(actual, operator, expected) ==
    CASE operator \in {"<", "lt"} -> actual < expected
      [] operator \in {"<=", "lte"} -> actual <= expected
      [] operator \in {">", "gt"} -> actual > expected
      [] operator \in {">=", "gte"} -> actual >= expected
      [] operator \in {"==", "eq", "==="} -> actual = expected
      [] operator \in {"!=", "ne", "!=="} -> actual # expected
      [] OTHER -> FALSE

\* compareValues(undefined, operator, expected) for a defined expected value
compareUndefined(operator) == operator \in {"!=", "ne", "!=="}

RECURSIVE evaluateCondition(_, _)
evaluateCondition(e, condition) ==
    IF Has(condition, "all") THEN \A i \in DOMAIN condition.all : evaluateCondition(e, condition.all[i])
    ELSE IF Has(condition, "any") THEN \E i \in DOMAIN condition.any : evaluateCondition(e, condition.any[i])
    ELSE IF Has(condition, "not") THEN ~evaluateCondition(e, condition["not"])
    ELSE LET type == Get(condition, "type", "")
             target == Get(condition, "target", "")
         IN CASE type = "attribute" ->
                    IF target \in DOMAIN e.attributes THEN compareValues(e.attributes[target], condition.operator, condition.value)
                    ELSE compareUndefined(condition.operator)
              [] type = "variable" ->
                    IF target \in DOMAIN e.variables THEN compareValues(e.variables[target].value, condition.operator, condition.value)
                    ELSE compareUndefined(condition.operator)
              [] type = "context" ->
                    IF target \in DOMAIN e.contexts THEN compareValues(e.contexts[target], condition.operator, condition.value)
                    ELSE compareUndefined(condition.operator)
              [] type \in {"trait", "item"} -> isNodeActive(e, target)
              [] type = "modifier" -> Includes(e.modifiers, target)
              [] type = "compound" -> Includes(e.compounds, target)
              [] OTHER -> FALSE

evaluateConditions(e, conditions) == \A i \in DOMAIN conditions : evaluateCondition(e, conditions[i])

(***************************************************************************)
(* Weights, eligibility, relationship values.                              *)
(***************************************************************************)
calculateRelationshipValue(e, rel) ==
    IF Get(rel.config, "scaling", "flat") = "perPoint" /\ Has(rel.config, "perPointSource")
    THEN LET sourceValue == getNodeValue(e, rel.config.perPointSource)
             max == IF HasNode(rel.config.perPointSource) THEN Get(getNode(rel.config.perPointSource).config, "max", 10) ELSE 10
         IN rel.config.value * (IF Get(rel.config, "invert", FALSE) THEN max - sourceValue ELSE sourceValue)
    ELSE rel.config.value

\* one step of a fold with rel.config.operation over an accumulated number
applyOperation(acc, operation, value) ==
    CASE operation = "add" -> acc + value
      [] operation = "multiply" -> acc * value
      [] OTHER -> acc

\* the relationships of one type that target a node, whose source is active
\* and whose conditions pass, in index order
activeRelationships(e, nodeId, relType) ==
    SelectSeq(getRelationshipsTo(nodeId),
              LAMBDA r : r.type = relType /\ isNodeActive(e, r.sourceId) /\ evaluateConditions(e, r.conditions))

RECURSIVE foldRelationships(_, _, _, _)
foldRelationships(e, rels, i, acc) ==
    IF i > Len(rels) THEN acc
    ELSE foldRelationships(e, rels, i + 1, applyOperation(acc, rels[i].config.operation, calculateRelationshipValue(e, rels[i])))

RECURSIVE foldWeightModifiers(_, _, _, _)
foldWeightModifiers(e, mods, i, acc) ==
    IF i > Len(mods) THEN acc
    ELSE foldWeightModifiers(e, mods, i + 1,
            IF evaluateCondition(e, mods[i].condition) THEN applyOperation(acc, mods[i].operation, mods[i].value) ELSE acc)

\* calculateWeight for layers that leave diminishingReturns unset (the
\* loaded configurations do): baseWeight, weightModifiers, weight_influence
\* relationships, then the layer's weightFloor
calculateWeight(e, trait) ==
    LET selection == Get(trait.config, "selection", << >>)
        baseWeight == Get(selection, "baseWeight", 20)
        layerId == Get(trait.config, "layerId", "")
        layerSelection == IF HasNode(layerId) THEN Get(getNode(layerId).config, "selection", << >>) ELSE << >>
        w1 == foldWeightModifiers(e, Get(selection, "weightModifiers", << >>), 1, baseWeight)
        w2 == foldRelationships(e, activeRelationships(e, trait.id, "weight_influence"), 1, w1)
    IN Max2(Get(layerSelection, "weightFloor", 0), w2)

checkEligibility(e, trait) == evaluateConditions(e, Get(trait.config, "eligibility", << >>))

hasIncompatibility(e, trait) ==
    LET incompatible == Get(trait.config, "incompatibleWith", << >>)
    IN \E i \in DOMAIN incompatible : isNodeActive(e, incompatible[i])

(***************************************************************************)
(* Trait activation (SpawnManager).                                        *)
(***************************************************************************)
deactivateTraitOk(e, traitId) ==
    /\ HasNode(traitId)
    /\ isTrait(getNode(traitId))
    /\ Get(getNode(traitId).config, "layerId", "undefined") \in DOMAIN e.layers
    /\ Includes(e.layers[Get(getNode(traitId).config, "layerId", "undefined")].active, traitId)

\* SpawnManager.deactivateTrait: the entity afterwards (unchanged when it returns false)
deactivateTrait(e, traitId) ==
    IF ~deactivateTraitOk(e, traitId) THEN e
    ELSE LET layerId == Get(getNode(traitId).config, "layerId", "undefined")
         IN WithLayerActive(e, layerId, RemoveFirst(e.layers[layerId].active, traitId))

RECURSIVE deactivateAll(_, _, _)
deactivateAll(e, ids, i) == IF i > Len(ids) THEN e ELSE deactivateAll(deactivateTrait(e, ids[i]), ids, i + 1)

\* activateTrait without its "already active" early return
activateTraitOkNoDuplicateCheck(e, traitId) ==
    /\ HasNode(traitId)
    /\ isTrait(getNode(traitId))

activateTraitOk(e, traitId) ==
    /\ HasNode(traitId)
    /\ isTrait(getNode(traitId))
    /\ ~Includes(LayerActive(e, Get(getNode(traitId).config, "layerId", "undefined")), traitId)

\* SpawnManager.activateTrait: replaces[] are deactivated, then the trait is
\* appended to the active list of its own layer
activateTrait(e, traitId) ==
    IF ~activateTraitOk(e, traitId) THEN e
    ELSE LET trait == getNode(traitId)
             layerId == Get(trait.config, "layerId", "undefined")
             replaces == Get(Get(trait.config, "selection", << >>), "replaces", << >>)
             e1 == deactivateAll(WithLayerActive(e, layerId, LayerActive(e, layerId)), replaces, 1)
         IN WithLayerActive(e1, layerId, Append(LayerActive(e1, layerId), traitId))

forceActivateTrait(e, traitId) ==
    IF ~(HasNode(traitId) /\ isTrait(getNode(traitId))) THEN e
    ELSE LET layerId == Get(getNode(traitId).config, "layerId", "undefined")
         IN IF Includes(LayerActive(e, layerId), traitId) THEN WithLayerActive(e, layerId, LayerActive(e, layerId))
            ELSE WithLayerActive(e, layerId, Append(LayerActive(e, layerId), traitId))

RECURSIVE forceActivateAll(_, _, _)
forceActivateAll(e, ids, i) == IF i > Len(ids) THEN e ELSE forceActivateAll(forceActivateTrait(e, ids[i]), ids, i + 1)

RECURSIVE activateAll(_, _, _)
activateAll(e, ids, i) == IF i > Len(ids) THEN e ELSE activateAll(activateTrait(e, ids[i]), ids, i + 1)

(***************************************************************************)
(* The cascade triple: rates, compounds, derived.                          *)
(***************************************************************************)
\* one entry of compound.config.requires; a bare string 'x' is written [string |-> "x"]
requirementMet(e, req) ==
    IF Has(req, "string") THEN isNodeActive(e, req.string)
    ELSE IF Has(req, "id") /\ Has(req, "operator") /\ Has(req, "value") THEN compareValues(getNodeValue(e, req.id), req.operator, req.value)
    ELSE IF Has(req, "item") THEN isNodeActive(e, req.item)
    ELSE IF Has(req, "trait") THEN isNodeActive(e, req.trait)
    ELSE IF Has(req, "modifier") THEN Includes(e.modifiers, req.modifier)
    ELSE IF Has(req, "condition") THEN evaluateCondition(e, req.condition)
    ELSE IF Has(req, "id") THEN isNodeActive(e, req.id)
    ELSE FALSE

\* requirements read as "any" whatever requirementLogic says
checkCompoundRequirementsAny(e, compound) ==
    \E i \in DOMAIN Get(compound.config, "requires", << >>) : requirementMet(e, compound.config.requires[i])

checkCompoundRequirements(e, compound) ==
    LET requires == Get(compound.config, "requires", << >>)
        logic == Get(compound.config, "requirementLogic", "all")
    IN IF Len(requires) = 0 THEN FALSE
       ELSE IF logic = "all" THEN \A i \in DOMAIN requires : requirementMet(e, requires[i])
       ELSE \E i \in DOMAIN requires : requirementMet(e, requires[i])

\* one pass over the compounds in declaration order, each seeing the
\* membership the earlier iterations left
RECURSIVE checkCompoundsLoop(_, _, _)
checkCompoundsLoop(e, compounds, i) ==
    IF i > Len(compounds) THEN e
    ELSE LET id == compounds[i].id
             isActive == Includes(e.compounds, id)
             met == checkCompoundRequirements(e, compounds[i])
             e1 == IF met /\ ~isActive THEN [e EXCEPT !.compounds = Append(e.compounds, id)]
                   ELSE IF ~met /\ isActive THEN [e EXCEPT !.compounds = RemoveFirst(e.compounds, id)]
                   ELSE e
         IN checkCompoundsLoop(e1, compounds, i + 1)

checkCompounds(e) == checkCompoundsLoop(e, getNodesByType("compound"), 1)

\* the events a pass of checkCompounds over e emits: it pushes and splices
\* entity.compounds and calls no emit
checkCompoundsEmits(e) == << >>

\* the formula's context {...attributes, ...variable values, ...contexts}
formulaContextHas(e, name) == name \in DOMAIN e.contexts \/ name \in DOMAIN e.variables \/ name \in DOMAIN e.attributes

formulaContext(e, name) ==
    IF name \in DOMAIN e.contexts THEN e.contexts[name]
    ELSE IF name \in DOMAIN e.variables THEN e.variables[name].value
    ELSE e.attributes[name]

\* evaluateFormula for "left op right": the float result, or "throws" when an
\* identifier is not in the context (ReferenceError)
formulaThrows(e, formula) == ~formulaContextHas(e, formula.left) \/ ~formulaContextHas(e, formula.right)

evaluateFormula(e, formula) ==
    LET a == formulaContext(e, formula.left)
        b == formulaContext(e, formula.right)
    IN CASE formula.op = "+" -> Num(a + b)
         [] formula.op = "-" -> Num(a - b)
         [] formula.op = "*" -> Num(a * b)
         [] formula.op = "/" -> FloatDiv(a, b)

derivedValue(e, derived) ==
    IF formulaThrows(e, derived.config.formula) THEN Num(0)
    ELSE LET value == evaluateFormula(e, derived.config.formula)
             lo == IF Has(derived.config, "min") THEN Num(derived.config.min) ELSE NegInf
             hi == IF Has(derived.config, "max") THEN Num(derived.config.max) ELSE PosInf
         IN FloatMax(lo, FloatMin(hi, value))

calculateDerived(e) ==
    LET nodes == getNodesByType("derived")
        ids == {nodes[i].id : i \in DOMAIN nodes}
    IN [e EXCEPT !.derived = [d \in DOMAIN e.derived \cup ids |->
            IF d \in ids THEN derivedValue(e, getNode(d)) ELSE e.derived[d]]]

\* currentRate = baseRate folded with the active rate_modifier relationships
rateOf(e, varId) == foldRelationships(e, activeRelationships(e, varId, "rate_modifier"), 1, e.variables[varId].baseRate)

recalculateRates(e) ==
    LET nodes == getNodesByType("variable")
        ids == {nodes[i].id : i \in DOMAIN nodes} \cap DOMAIN e.variables
    IN [e EXCEPT !.variables = [v \in DOMAIN e.variables |->
            IF v \in ids THEN [e.variables[v] EXCEPT !.currentRate = rateOf(e, v)] ELSE e.variables[v]]]

\* a spy on the triple: an entity that carries a `cascades` counter has it
\* raised by every run
countCascade(e) == IF Has(e, "cascades") THEN [e EXCEPT !.cascades = @ + 1] ELSE e

\* EntityManager._runCascade outside a batch
runCascade(e) == countCascade(calculateDerived(checkCompounds(recalculateRates(e))))


(***************************************************************************)
(* Layer selection.  Math.random() makes these set-valued: each operator   *)
(* gives every outcome some draw produces.                                 *)
(***************************************************************************)
traitMode(trait) == Get(Get(trait.config, "selection", << >>), "mode", "")

\* the pool of selectWeighted: not active in the rolled layer, not
\* threshold-mode, eligible, compatible, and of positive weight
weightedPool(e, layerId) ==
    SelectSeq(getLayerTraits(layerId),
              LAMBDA t : /\ ~Includes(LayerActive(e, layerId), t.id)
                         /\ traitMode(t) # "threshold"
                         /\ checkEligibility(e, t)
                         /\ ~hasIncompatibility(e, t)
                         /\ calculateWeight(e, t) > 0)

\* the candidates of selectAllMatching and selectFirstMatch
matchingTraits(e, layerId) ==
    SelectSeq(getLayerTraits(layerId),
              LAMBDA t : /\ ~Includes(LayerActive(e, layerId), t.id)
                         /\ checkEligibility(e, t)
                         /\ ~hasIncompatibility(e, t))

idsOf(nodes) == [i \in DOMAIN nodes |-> nodes[i].id]

\* the `selected` lists selectWeighted can return (none when the pool is empty)
selectWeighted(e, layerId) == {<<t>> : t \in SeqToSet(idsOf(weightedPool(e, layerId)))}

selectAllMatching(e, layerId) == {idsOf(matchingTraits(e, layerId))}

\* n weighted draws without replacement from the pool selectWeighted built
selectPickN(e, layerId, n) ==
    LET pool == SeqToSet(idsOf(weightedPool(e, layerId)))
        k == Min2(n, Cardinality(pool))
    IN IF pool = {} THEN {}
       ELSE {sel \in [1..k -> pool] : \A i, j \in 1..k : sel[i] = sel[j] => i = j}

selectFirstMatch(e, layerId) ==
    IF Len(matchingTraits(e, layerId)) = 0 THEN {} ELSE {<<matchingTraits(e, layerId)[1].id>>}

\* rollLayer: the entities a roll can leave
rollLayer(e, layerId) ==
    IF ~HasNode(layerId) \/ getNode(layerId).type # "layer" THEN {e}
    ELSE LET selection == Get(getNode(layerId).config, "selection", << >>)
             mode == Get(selection, "mode", "weighted")
             maxItems == Get(selection, "maxItems", 10)
             pickCount == IF Get(selection, "pickCount", 0) = 0 THEN 1 ELSE selection.pickCount
             selected == CASE mode = "allMatching" -> selectAllMatching(e, layerId)
                           [] mode = "pickN" -> selectPickN(e, layerId, pickCount)
                           [] mode = "firstMatch" -> selectFirstMatch(e, layerId)
                           [] OTHER -> selectWeighted(e, layerId)
         IN IF Len(LayerActive(e, layerId)) >= maxItems \/ selected = {} THEN {e}
            ELSE {activateAll(e, sel, 1) : sel \in selected}

RECURSIVE rollLayerTimes(_, _, _)
rollLayerTimes(es, layerId, n) ==
    IF n = 0 THEN es ELSE rollLayerTimes(UNION {rollLayer(e, layerId) : e \in es}, layerId, n - 1)

\* rollOutcome: clear the layer, roll `rolls` times, re-check compounds and derived
rollOutcome(e, layerId, rolls) ==
    IF ~HasNode(layerId) \/ getNode(layerId).type # "layer" THEN {e}
    ELSE {calculateDerived(checkCompounds(r)) : r \in rollLayerTimes({WithLayerActive(e, layerId, << >>)}, layerId, rolls)}

(***************************************************************************)
(* Generation (SpawnManager.generate / spawn).                             *)
(***************************************************************************)
\* the items as collected: attributes first, then layers
collectedOrder(items) == items

\* a stable sort of a sequence of records by their `order` field
sortByOrder(items) ==
    LET rank(i) == 1 + Cardinality({j \in DOMAIN items : items[j].order < items[i].order \/ (items[j].order = items[i].order /\ j < i)})
    IN [r \in DOMAIN items |-> items[CHOOSE i \in DOMAIN items : rank(i) = r]]

getSpawnOrder ==
    LET attrs == getNodesByType("attribute")
        layers == SelectSeq(getNodesByType("layer"), LAMBDA l : Get(Get(l.config, "timing", << >>), "rollAt", "") \in {"create", "spawn"})
    IN sortByOrder([i \in DOMAIN attrs |-> [id |-> attrs[i].id, type |-> "attribute", order |-> Get(attrs[i].config, "spawnOrder", 0)]]
                   \o [i \in DOMAIN layers |-> [id |-> layers[i].id, type |-> "layer", order |-> Get(layers[i].config, "order", 0)]])

attributeBaseRange(attr) ==
    [min |-> IF Has(attr.config, "defaultRange") THEN attr.config.defaultRange[1] ELSE Get(attr.config, "min", 1),
     max |-> IF Has(attr.config, "defaultRange") THEN attr.config.defaultRange[2] ELSE Get(attr.config, "max", 10)]

\* add shifts both bounds, multiply scales both
getModifiedAttributeRange(e, attr) ==
    LET rels == activeRelationships(e, attr.id, "value_modifier")
    IN [min |-> foldRelationships(e, rels, 1, attributeBaseRange(attr).min),
        max |-> foldRelationships(e, rels, 1, attributeBaseRange(attr).max)]

\* rollRange with precision 0 on integer bounds: every integer in between
rollRange(min, max) == Min2(min, max)..Max2(min, max)

initialVariable(cfg, initial) ==
    [value |-> initial, baseRate |-> Get(cfg, "baseRate", 0), currentRate |-> Get(cfg, "baseRate", 0),
     min |-> Get(cfg, "min", 0), max |-> Get(cfg, "max", 100),
     changeMode |-> Get(cfg, "changeMode", "manual"), direction |-> Get(cfg, "direction", "none")]

\* the entity of generate before the spawn-order loop
generateBase(overrides) ==
    LET vs == getNodesByType("variable")
        cs == getNodesByType("context")
        ls == getNodesByType("layer")
    IN [NoEntity EXCEPT
            !.variables = [v \in SeqToSet(idsOf(vs)) |-> initialVariable(getNode(v).config, Get(getNode(v).config, "initial", 100))],
            !.contexts = [c \in {x \in SeqToSet(idsOf(cs)) : x \in DOMAIN overrides.contexts \/ Has(getNode(x).config, "default")} |->
                            IF c \in DOMAIN overrides.contexts THEN overrides.contexts[c] ELSE getNode(c).config.default],
            !.layers = [l \in SeqToSet(idsOf(ls)) |-> [active |-> << >>]]]

\* one item of the spawn order
generateStep(e, item, overrides) ==
    IF item.type = "attribute"
    THEN IF item.id \in DOMAIN overrides.attributes
         THEN {[e EXCEPT !.attributes = Put(e.attributes, item.id, overrides.attributes[item.id])]}
         ELSE LET range == getModifiedAttributeRange(e, getNode(item.id))
              IN {[e EXCEPT !.attributes = Put(e.attributes, item.id, v)] : v \in rollRange(range.min, range.max)}
    ELSE LET rolls == Get(Get(getNode(item.id).config, "selection", << >>), "initialRolls", 0)
         IN rollLayerTimes({e}, item.id, IF rolls = 0 THEN 1 ELSE rolls)

RECURSIVE generateLoop(_, _, _, _)
generateLoop(es, items, i, overrides) ==
    IF i > Len(items) THEN es
    ELSE generateLoop(UNION {generateStep(e, items[i], overrides) : e \in es}, items, i + 1, overrides)

\* overrides for ids that are no attribute of the config, then the closing
\* recalculation (compounds, derived, rates, in that order) and the cooldowns
generateFinish(e, overrides) ==
    LET extra == [a \in DOMAIN e.attributes \cup DOMAIN overrides.attributes |->
                    IF a \in DOMAIN e.attributes THEN e.attributes[a] ELSE overrides.attributes[a]]
        acts == getNodesByType("action")
        e1 == recalculateRates(calculateDerived(checkCompounds([e EXCEPT !.attributes = extra])))
    IN [e1 EXCEPT !.actions = [a \in SeqToSet(idsOf(acts)) |-> [cooldownRemaining |-> 0]]]

NoOverrides == [attributes |-> << >>, contexts |-> << >>, forceTraits |-> << >>]

\* SpawnManager.generate: every entity it can return
generate(overrides) == {generateFinish(e, overrides) : e \in generateLoop({generateBase(overrides)}, getSpawnOrder, 1, overrides)}

getPreset(presetId) == config.presets[CHOOSE i \in DOMAIN config.presets : config.presets[i].id = presetId]

\* SpawnManager.spawn for a registered preset with fixed-number attributes
\* and a forceTraits list: generate, then force the traits (no recalculation)
spawn(presetId) ==
    LET preset == getPreset(presetId)
        merged == [attributes |-> Get(preset, "attributes", << >>), contexts |-> Get(preset, "contexts", << >>),
                   forceTraits |-> Get(preset, "forceTraits", << >>)]
    IN {[forceActivateAll(e, merged.forceTraits, 1) EXCEPT !.presetId = presetId] : e \in generate(merged)}


(***************************************************************************)
(* Actions (SpawnManager.isActionAvailable / executeAction).               *)
(***************************************************************************)
isActionAvailable(e, actionId) ==
    /\ HasNode(actionId)
    /\ getNode(actionId).type = "action"
    /\ LET cfg == getNode(actionId).config
           costs == Get(cfg, "costs", << >>)
           requirements == Get(cfg, "requirements", << >>)
           blockedBy == Get(cfg, "blockedBy", << >>)
       IN /\ ~(actionId \in DOMAIN e.actions /\ e.actions[actionId].cooldownRemaining > 0)
          /\ \A v \in DOMAIN costs : v \in DOMAIN e.variables /\ ~(e.variables[v].value < costs[v])
          /\ \A i \in DOMAIN requirements : isNodeActive(e, requirements[i])
          /\ \A i \in DOMAIN blockedBy : ~isNodeActive(e, blockedBy[i])
          /\ (Has(cfg, "eligibility") => evaluateConditions(e, cfg.eligibility))

\* costs are deducted with a floor at min only; the cooldown starts
executeAction(e, actionId) ==
    IF ~isActionAvailable(e, actionId) THEN e
    ELSE LET cfg == getNode(actionId).config
             costs == Get(cfg, "costs", << >>)
         IN [e EXCEPT !.variables = [v \in DOMAIN e.variables |->
                                        IF v \in DOMAIN costs
                                        THEN [e.variables[v] EXCEPT !.value = Max2(e.variables[v].min, e.variables[v].value - costs[v])]
                                        ELSE e.variables[v]],
                      !.actions = Put(e.actions, actionId, [cooldownRemaining |-> Get(cfg, "cooldown", 0)])]

(***************************************************************************)
(* EntityManager: thresholds and trigger conditions.                       *)
(***************************************************************************)
evaluateThreshold(value, condition) ==
    LET op == IF Has(condition, "operator") THEN condition.operator ELSE Get(condition, "op", "")
    IN CASE op = "<" -> value < condition.value
         [] op = "<=" -> value <= condition.value
         [] op = ">" -> value > condition.value
         [] op = ">=" -> value >= condition.value
         [] op \in {"=", "=="} -> value = condition.value
         [] op = "!=" -> value # condition.value
         [] OTHER -> FALSE

evaluateSingleCondition(e, cond) ==
    IF ~Has(cond, "target") THEN FALSE
    ELSE IF Get(cond, "operator", "") = "active" THEN isNodeActive(e, cond.target)
    ELSE IF Get(cond, "operator", "") = "inactive" THEN ~isNodeActive(e, cond.target)
    ELSE evaluateThreshold(getNodeValue(e, cond.target), cond)

\* left-to-right fold of a condition list with per-condition connectors
RECURSIVE foldConnectors(_, _, _, _, _)
foldConnectors(e, conditions, i, result, defaultConnector) ==
    IF i > Len(conditions) THEN result
    ELSE LET condResult == evaluateSingleCondition(e, conditions[i])
             connector == Get(conditions[i], "connector", defaultConnector)
         IN foldConnectors(e, conditions, i + 1,
                           IF connector = "OR" THEN result \/ condResult ELSE result /\ condResult, defaultConnector)

evaluateConditionOrGroup(e, cond) ==
    IF Get(cond, "type", "") = "group" /\ Len(Get(cond, "conditions", << >>)) > 0
    THEN foldConnectors(e, cond.conditions, 2, evaluateSingleCondition(e, cond.conditions[1]), "OR")
    ELSE evaluateSingleCondition(e, cond)

RECURSIVE foldGroups(_, _, _, _, _)
foldGroups(e, conditions, i, result, fallbackLogic) ==
    IF i > Len(conditions) THEN result
    ELSE LET condResult == evaluateConditionOrGroup(e, conditions[i])
             connector == Get(conditions[i], "connector", IF fallbackLogic = "any" THEN "OR" ELSE "AND")
         IN foldGroups(e, conditions, i + 1,
                       IF connector = "OR" THEN result \/ condResult ELSE result /\ condResult, fallbackLogic)

evaluateConditionsWithConnectors(e, conditions, fallbackLogic) ==
    IF Len(conditions) = 0 THEN FALSE
    ELSE foldGroups(e, conditions, 2, evaluateConditionOrGroup(e, conditions[1]), fallbackLogic)

\* triggers are held in the normalised multi-condition form
evaluateModifierTrigger(e, trigger) ==
    IF Len(Get(trigger, "conditions", << >>)) > 0
    THEN evaluateConditionsWithConnectors(e, trigger.conditions, Get(trigger, "logic", "all"))
    ELSE IF Has(trigger, "target") THEN evaluateThreshold(getNodeValue(e, trigger.target), trigger)
    ELSE FALSE

evaluateRemoveConditions(e, trigger) ==
    IF Len(Get(trigger, "removeConditions", << >>)) > 0
    THEN evaluateConditionsWithConnectors(e, trigger.removeConditions, Get(trigger, "removeLogic", "all"))
    ELSE IF Get(trigger, "static", FALSE) /\ Len(Get(trigger, "conditions", << >>)) > 0
    THEN ~evaluateConditionsWithConnectors(e, trigger.conditions, Get(trigger, "logic", "all"))
    ELSE FALSE

(***************************************************************************)
(* EntityManager: traits and modifiers on a stored entity.  The *State     *)
(* operators are the writes of a handler; the handler itself adds the      *)
(* cascade, which a batch defers.                                          *)
(***************************************************************************)
emActivateTrait(e, traitId) == IF activateTraitOk(e, traitId) THEN runCascade(activateTrait(e, traitId)) ELSE e

emDeactivateTrait(e, traitId) == IF deactivateTraitOk(e, traitId) THEN runCascade(deactivateTrait(e, traitId)) ELSE e

\* the state map entry of a first application
newModifierState(cfg, isStatic, t) ==
    LET base == [stacks |-> 1, isStatic |-> isStatic,
                 expiresAt |-> IF ~isStatic /\ Get(cfg, "durationType", "") = "timed" /\ Get(cfg, "duration", 0) # 0
                               THEN t + cfg.duration ELSE 0]
    IN IF ~isStatic /\ Get(cfg, "durationType", "") = "ticks" /\ Has(cfg, "duration")
       THEN Put(base, "ticksRemaining", cfg.duration) ELSE base

applyModifierState(e, modifierId, cfg, t) ==
    LET existing == Includes(e.modifiers, modifierId)
        isStatic == Get(cfg, "isStatic", FALSE) \/ Get(Get(cfg, "trigger", << >>), "static", FALSE)
    IN IF existing /\ modifierId \in DOMAIN e.modifierStates
       THEN LET modState == e.modifierStates[modifierId]
            IN IF Get(cfg, "stacking", "") = "refresh"
               THEN IF ~isStatic /\ Get(cfg, "duration", 0) # 0 /\ Get(cfg, "durationType", "") = "timed"
                    THEN [e EXCEPT !.modifierStates[modifierId].expiresAt = t + cfg.duration]
                    ELSE e
               ELSE IF Get(cfg, "stacking", "") = "stack"
               THEN [e EXCEPT !.modifierStates[modifierId].stacks = Min2(modState.stacks + 1, IF Get(cfg, "maxStacks", 0) = 0 THEN 99 ELSE cfg.maxStacks)]
               ELSE e
       ELSE [e EXCEPT !.modifiers = Append(e.modifiers, modifierId),
                      !.modifierStates = Put(e.modifierStates, modifierId, newModifierState(cfg, isStatic, t))]

applyModifier(e, modifierId, cfg, t) == runCascade(applyModifierState(e, modifierId, cfg, t))

\* SpawnEngine.applyModifier on a stored entity: config = modifier?.config || {},
\* whatever the id names
engineApplyModifier(e, modifierId, t) ==
    applyModifier(e, modifierId, IF HasNode(modifierId) THEN getNode(modifierId).config ELSE << >>, t)

\* its return value: false when the entity is unknown, otherwise the
\* manager's, which is true
engineApplyModifierReturns(isStored, modifierId) == isStored

removeModifierState(e, modifierId) ==
    [e EXCEPT !.modifiers = RemoveFirst(e.modifiers, modifierId), !.modifierStates = Drop(e.modifierStates, modifierId)]

removeModifier(e, modifierId) ==
    IF ~Includes(e.modifiers, modifierId) THEN e ELSE runCascade(removeModifierState(e, modifierId))

\* a threshold check that never brings a trait in
thresholdActivateNever(e, trait, isActive, value) == e

\* if (!isActive && trigger met) activateTrait
thresholdActivate(e, trait, isActive, value) ==
    IF ~isActive /\ evaluateThreshold(value, trait.config.selection.trigger) THEN emActivateTrait(e, trait.id) ELSE e

\* if (isActive && autoRemove && autoRemove met) deactivateTrait, with the
\* isActive read before the activation step
thresholdDeactivate(e, trait, isActive, value) ==
    IF isActive /\ Has(trait.config.selection, "autoRemove") /\ evaluateThreshold(value, trait.config.selection.autoRemove)
    THEN emDeactivateTrait(e, trait.id) ELSE e

thresholdStep(e, trait, isActive, value) == thresholdDeactivate(thresholdActivate(e, trait, isActive, value), trait, isActive, value)

RECURSIVE checkThresholdsLoop(_, _, _, _)
checkThresholdsLoop(e, varId, traits, i) ==
    IF i > Len(traits) THEN e
    ELSE checkThresholdsLoop(thresholdStep(e, traits[i],
                                           Includes(LayerActive(e, Get(traits[i].config, "layerId", "undefined")), traits[i].id),
                                           e.variables[varId].value),
                             varId, traits, i + 1)

checkThresholds(e, varId) == checkThresholdsLoop(e, varId, thresholdTraitsByVar(varId), 1)


(***************************************************************************)
(* EntityManager: exclusive groups and the threshold-modifier pass.        *)
(***************************************************************************)
partnersOf(modId) == IF modId \in DOMAIN exclusiveGroups.sets THEN exclusiveGroups.sets[modId] ELSE << >>

\* for (const p of currentPartners) if (!group.has(p)) { group.add(p); queue.push(p) }
RECURSIVE addPartners(_, _, _)
addPartners(st, partners, j) ==
    IF j > Len(partners) THEN st
    ELSE addPartners(IF Includes(st.group, partners[j]) THEN st
                     ELSE [group |-> Append(st.group, partners[j]), queue |-> Append(st.queue, partners[j])],
                     partners, j + 1)

\* the transitive group of a modifier, in the insertion order of the Set
RECURSIVE collectGroup(_)
collectGroup(st) ==
    IF Len(st.queue) = 0 THEN st.group
    ELSE LET current == st.queue[Len(st.queue)]
         IN collectGroup(addPartners([group |-> st.group, queue |-> SubSeq(st.queue, 1, Len(st.queue) - 1)], partnersOf(current), 1))

isThresholdModifier(id) == \E i \in DOMAIN thresholdModifiers : thresholdModifiers[i].id = id

\* a resolution that takes the first candidate whatever the thresholds
getFirstCandidate(candidates) == candidates[1]

getMostSpecificModifier(candidates) ==
    LET single == \A i \in DOMAIN candidates : Len(Get(candidates[i].config.trigger, "conditions", << >>)) = 1
        cond(i) == candidates[i].config.trigger.conditions[1]
        sameTarget == \A i, j \in DOMAIN candidates : Get(cond(i), "target", "") = Get(cond(j), "target", "")
        allLe == \A i \in DOMAIN candidates : Get(cond(i), "operator", "") \in {"<=", "<"}
        allGe == \A i \in DOMAIN candidates : Get(cond(i), "operator", "") \in {">=", ">"}
        lowest == CHOOSE i \in DOMAIN candidates : \A j \in DOMAIN candidates :
                      cond(i).value < cond(j).value \/ (cond(i).value = cond(j).value /\ i <= j)
        highest == CHOOSE i \in DOMAIN candidates : \A j \in DOMAIN candidates :
                      cond(i).value > cond(j).value \/ (cond(i).value = cond(j).value /\ i <= j)
    IN IF single /\ sameTarget /\ allLe THEN candidates[lowest]
       ELSE IF single /\ sameTarget /\ allGe THEN candidates[highest]
       ELSE candidates[1]

\* the members of a group that modifiers.find() finds and whose trigger is met
groupCandidates(e, group) ==
    SelectSeq(group, LAMBDA id : isThresholdModifier(id) /\ evaluateModifierTrigger(e, getNode(id).config.trigger))

\* the winner among the candidate ids ("" when there is none)
groupWinner(met) ==
    IF Len(met) = 0 THEN ""
    ELSE IF Len(met) = 1 THEN met[1]
    ELSE getMostSpecificModifier([i \in DOMAIN met |-> getNode(met[i])]).id

\* the verdicts of one group: id -> TRUE (winner) | FALSE (loser)
groupVerdicts(group, winner) == [id \in SeqToSet(group) |-> id = winner]

\* results.set(id, verdict) for every member of a group
setVerdicts(results, verdicts) ==
    [id \in DOMAIN results \cup DOMAIN verdicts |-> IF id \in DOMAIN verdicts THEN verdicts[id] ELSE results[id]]

resolveGroup(e, results, group) == setVerdicts(results, groupVerdicts(group, groupWinner(groupCandidates(e, group))))

RECURSIVE resolveLoop(_, _, _)
resolveLoop(e, results, i) ==
    IF i > Len(exclusiveGroups.keys) THEN results
    ELSE IF exclusiveGroups.keys[i] \in DOMAIN results THEN resolveLoop(e, results, i + 1)
    ELSE resolveLoop(e, resolveGroup(e, results, collectGroup([group |-> <<exclusiveGroups.keys[i]>>, queue |-> <<exclusiveGroups.keys[i]>>])), i + 1)

resolveExclusiveGroups(e) == resolveLoop(e, << >>, 1)

\* the loop of checkModifierThresholds inside the batch: st = [e, dirty]
RECURSIVE checkModifierLoop(_, _, _, _)
checkModifierLoop(st, groupWinners, i, t) ==
    IF i > Len(thresholdModifiers) THEN st
    ELSE LET modifier == thresholdModifiers[i]
             trigger == modifier.config.trigger
             isActive == Includes(st.e.modifiers, modifier.id)
             isStatic == Get(trigger, "static", FALSE)
             shouldApply == evaluateModifierTrigger(st.e, trigger)
             applied == [e |-> applyModifierState(st.e, modifier.id, Put(modifier.config, "isStatic", isStatic), t), dirty |-> TRUE]
             removed == [e |-> removeModifierState(st.e, modifier.id), dirty |-> TRUE]
             next == IF modifier.id \in DOMAIN groupWinners
                     THEN IF groupWinners[modifier.id] /\ ~isActive THEN applied
                          ELSE IF ~groupWinners[modifier.id] /\ isActive THEN removed
                          ELSE st
                     ELSE IF ~isActive /\ shouldApply THEN applied
                          ELSE IF isActive /\ isStatic /\ evaluateRemoveConditions(st.e, trigger) THEN removed
                          ELSE st
         IN checkModifierLoop(next, groupWinners, i + 1, t)

\* a flush that runs the cascade whether or not the batch is dirty
flushCascadeAlways(st) == runCascade(st.e)

\* the flush at the end of the batch: one cascade if anything changed
flushCascade(st) == IF st.dirty THEN runCascade(st.e) ELSE st.e

\* winners are resolved before the loop
checkModifierThresholds(e, t) == flushCascade(checkModifierLoop([e |-> e, dirty |-> FALSE], resolveExclusiveGroups(e), 1, t))

(***************************************************************************)
(* EntityManager: variables and tick.                                      *)
(***************************************************************************)
\* the shared body of modifyVariable and setVariable once the new value is known
writeVariable(e, varId, value, t) ==
    IF varId \notin DOMAIN e.variables THEN e
    ELSE LET varState == e.variables[varId]
             newValue == Max2(varState.min, Min2(varState.max, value))
             e1 == [e EXCEPT !.variables[varId].value = newValue]
         IN IF newValue # varState.value
            THEN calculateDerived(checkModifierThresholds(checkThresholds(e1, varId), t))
            ELSE e1

modifyVariable(e, varId, delta, t) ==
    IF varId \notin DOMAIN e.variables THEN e ELSE writeVariable(e, varId, e.variables[varId].value + delta, t)

setVariable(e, varId, value, t) == writeVariable(e, varId, value, t)

variableOrder(e) == SelectSeq(idsOf(getNodesByType("variable")), LAMBDA v : v \in DOMAIN e.variables)

\* the variable loop of tick
RECURSIVE tickVariables(_, _, _, _)
tickVariables(e, ids, i, deltaSeconds) ==
    IF i > Len(ids) THEN e
    ELSE LET varState == e.variables[ids[i]]
             newValue == Max2(varState.min, Min2(varState.max, varState.value + varState.currentRate * deltaSeconds))
             e1 == [e EXCEPT !.variables[ids[i]].value = newValue]
         IN IF varState.changeMode = "timed" /\ varState.direction # "none"
            THEN tickVariables(IF newValue # varState.value THEN checkThresholds(e1, ids[i]) ELSE e1, ids, i + 1, deltaSeconds)
            ELSE tickVariables(e, ids, i + 1, deltaSeconds)

\* the expiry scan of tick, last modifier first: st = [e, expired]
RECURSIVE tickExpiry(_, _, _)
tickExpiry(st, i, t) ==
    IF i < 1 THEN st
    ELSE LET modId == st.e.modifiers[i]
         IN IF modId \notin DOMAIN st.e.modifierStates THEN tickExpiry(st, i - 1, t)
            ELSE LET modState == st.e.modifierStates[modId]
                 IN IF modState.isStatic THEN tickExpiry(st, i - 1, t)
                    ELSE IF modState.expiresAt # 0 /\ t >= modState.expiresAt
                    THEN tickExpiry([st EXCEPT !.expired = Append(st.expired, modId)], i - 1, t)
                    ELSE IF Has(modState, "ticksRemaining")
                    THEN tickExpiry([e |-> [st.e EXCEPT !.modifierStates[modId].ticksRemaining = modState.ticksRemaining - 1],
                                     expired |-> IF modState.ticksRemaining - 1 <= 0 THEN Append(st.expired, modId) ELSE st.expired],
                                    i - 1, t)
                    ELSE tickExpiry(st, i - 1, t)

RECURSIVE removeAll(_, _, _)
removeAll(e, ids, i) == IF i > Len(ids) THEN e ELSE removeAll(removeModifier(e, ids[i]), ids, i + 1)

tickCooldowns(e, deltaSeconds) ==
    [e EXCEPT !.actions = [a \in DOMAIN e.actions |->
        IF e.actions[a].cooldownRemaining > 0
        THEN [cooldownRemaining |-> Max2(0, e.actions[a].cooldownRemaining - deltaSeconds)]
        ELSE e.actions[a]]]

\* tick after the expiry scan: removals, threshold modifiers, cooldowns, derived
tickFinish(st, deltaSeconds, t) ==
    calculateDerived(tickCooldowns(checkModifierThresholds(removeAll(st.e, st.expired, 1), t), deltaSeconds))

\* tick after the variable loop
tickModifiers(e, deltaSeconds, t) == tickFinish(tickExpiry([e |-> e, expired |-> << >>], Len(e.modifiers), t), deltaSeconds, t)

tick(e, deltaSeconds, t) == tickModifiers(tickVariables(e, variableOrder(e), 1, deltaSeconds), deltaSeconds, t)


(***************************************************************************)
(* EntityManager: state history.                                           *)
(***************************************************************************)
maxHistory == 50

\* JSON.parse(JSON.stringify(...)) of the seven captured fields: integers,
\* strings and lists survive, a non-finite number comes back as null
jsonState(e) ==
    [attributes |-> e.attributes, variables |-> e.variables, contexts |-> e.contexts, layers |-> e.layers,
     modifiers |-> e.modifiers, compounds |-> e.compounds,
     derived |-> [d \in DOMAIN e.derived |-> JsonNumber(e.derived[d])]]

snapshot(h, e, t) ==
    LET pushed == Append(h, [timestamp |-> t, state |-> jsonState(e)])
    IN IF Len(pushed) > maxHistory THEN SubSeq(pushed, Len(pushed) - maxHistory + 1, Len(pushed)) ELSE pushed

\* [...snapshots].reverse().find(s => s.timestamp <= timestamp), as an index (0 = none)
findSnapshot(h, timestamp) ==
    IF \E i \in DOMAIN h : h[i].timestamp <= timestamp
    THEN CHOOSE i \in DOMAIN h : h[i].timestamp <= timestamp /\ \A j \in DOMAIN h : h[j].timestamp <= timestamp => j <= i
    ELSE 0

\* Object.assign(target, source)
Assign(target, source) == [k \in DOMAIN target \cup DOMAIN source |-> IF k \in DOMAIN source THEN source[k] ELSE target[k]]

rollback(e, h, timestamp) ==
    IF findSnapshot(h, timestamp) = 0 THEN e
    ELSE LET state == h[findSnapshot(h, timestamp)].state
         IN [e EXCEPT !.attributes = Assign(e.attributes, state.attributes),
                      !.contexts = Assign(e.contexts, state.contexts),
                      !.layers = state.layers,
                      !.modifiers = state.modifiers,
                      !.compounds = state.compounds,
                      !.derived = state.derived,
                      !.variables = [v \in DOMAIN e.variables |->
                                        IF v \in DOMAIN state.variables
                                        THEN [e.variables[v] EXCEPT !.value = state.variables[v].value]
                                        ELSE e.variables[v]]]

(***************************************************************************)
(* The state machine: one engine, one configuration, one entity.           *)
(***************************************************************************)
TraitIds == {n.id : n \in SeqToSet(getTraits)}

LayerIds == {n.id : n \in SeqToSet(getNodesByType("layer"))}

ModifierIds == {n.id : n \in SeqToSet(getNodesByType("modifier"))}

VariableIds == {n.id : n \in SeqToSet(getNodesByType("variable"))}

ActionIds == {n.id : n \in SeqToSet(getNodesByType("action"))}

PresetIds == {config.presets[i].id : i \in DOMAIN config.presets}

SetValues == {-1, 0, 2, 5}

Deltas == {-1, 1}

TickSeconds == {1, 2}

(***************************************************************************)
(* Entity pooling: EntityManager's multi-pool system.  The manager's own   *)
(* tables (pools, stored, active, history, groups) are the fields of one   *)
(* record, mgr; objects holds the entity objects that stored and active    *)
(* refer to.  An entity is kept here by the fields pooling reads and       *)
(* writes: id, configId, presetId and poolId ("" = not set).  Strings that *)
(* are glob-matched are sequences of characters.  Pool rules use the       *)
(* 'preset' source.  The deprecated mirrors (this.pool, this.poolConfig,   *)
(* this.poolStats) are written and never read by the multi-pool methods,   *)
(* and the shrink timer acts on pools of more than ten entities only:      *)
(* both are left out.  calls counts the public calls made so far.          *)
(***************************************************************************)
DefaultPoolId == "default"

NoPoolId == ""

\* config.maxEntities: null
NoLimit == -1

\* poolConfig.maxSize, and createPool's options.maxSize ?? 100
defaultMaxSize == 100

EnemyGoblin == <<"e", "n", "e", "m", "y", "_", "g", "o", "b", "l", "i", "n">>

Villager == <<"v", "i", "l", "l", "a", "g", "e", "r">>

\* a preset id that was never registered
Wanderer == <<"w", "a", "n", "d", "e", "r", "e", "r">>

\* acquire() called with an overrides object, or a null preset id
NoPreset == << >>

\* A configuration with two presets and no nodes: what pooling reads of an
\* entity does not depend on its attributes, variables or layers.
ConfigArena ==
    [id |-> "arena", nodes |-> << >>, relationships |-> << >>,
     presets |-> <<[id |-> EnemyGoblin], [id |-> Villager]>>]

\* rules: { conditions: [{ source: 'preset', match: 'enemy_*' }] }
EnemyRules == [conditions |-> <<[source |-> "preset", match |-> <<"e", "n", "e", "m", "y", "_", "*">>]>>]

\* rules: null
NoRules == << >>

newStats == [size |-> 0, available |-> 0, inUse |-> 0, totalAcquired |-> 0, totalReleased |-> 0, totalCreated |-> 0]

initDefaultPool ==
    [id |-> DefaultPoolId,
     config |-> [maxSize |-> defaultMaxSize, preWarm |-> 0, preWarmPreset |-> NoPreset],
     stats |-> newStats, entities |-> << >>, rules |-> NoRules]

\* new EntityManager(spawnManager), config.maxEntities as given
newManager(maxEntities) ==
    [pools |-> [p \in {DefaultPoolId} |-> initDefaultPool], order |-> <<DefaultPoolId>>,
     objects |-> << >>, stored |-> {}, active |-> {}, history |-> << >>, groups |-> << >>,
     maxEntities |-> maxEntities, nextId |-> 1, calls |-> 0, emitted |-> << >>,
     returned |-> [op |-> "none"], listeners |-> << >>, invoked |-> << >>]

\* this.listeners: event -> the callbacks subscribed to it, in insertion order
subscribers(listeners, type) == Get(listeners, type, << >>)

\* on(event, callback): a Set holds a callback once
on(m, type, callback) == [m EXCEPT !.listeners = Put(@, type, SetAdd(subscribers(@, type), callback))]

\* off(event, callback)
off(m, type, callback) ==
    IF Has(m.listeners, type) THEN [m EXCEPT !.listeners[type] = RemoveFirst(@, callback)] ELSE m

\* a forEach with no try/catch around the callback ends at the first throw
RECURSIVE invokedUntilThrow(_, _)
invokedUntilThrow(callbacks, type) ==
    IF callbacks = << >> THEN << >>
    ELSE IF Head(callbacks).throws THEN << <<Head(callbacks).id, type>> >>
    ELSE << <<Head(callbacks).id, type>> >> \o invokedUntilThrow(Tail(callbacks), type)

\* forEach(cb => { try { cb(data) } catch (e) { console.error(...) } }): the
\* calls made, as <<callback, event>>
invokedCallbacks(callbacks, type) == [i \in DOMAIN callbacks |-> <<callbacks[i].id, type>>]

emit(m, event) ==
    [m EXCEPT !.emitted = Append(@, event),
              !.invoked = @ \o invokedCallbacks(subscribers(m.listeners, event.type), event.type)]

returning(m, value) == [m EXCEPT !.returned = value]

\* the entity generate() builds: a fresh id, the configuration's id, no pool
newEntity(id, presetId) == [id |-> id, configId |-> config.id, presetId |-> presetId, poolId |-> NoPoolId]

\* regex test of '^' + pattern.replace(/\*/g, '.*') + '$'
RECURSIVE matchGlob(_, _)
matchGlob(str, pattern) ==
    IF pattern = << >> THEN str = << >>
    ELSE IF Head(pattern) = "*"
         THEN matchGlob(str, Tail(pattern)) \/ (str # << >> /\ matchGlob(Tail(str), pattern))
         ELSE str # << >> /\ Head(str) = Head(pattern) /\ matchGlob(Tail(str), Tail(pattern))

matchPattern(str, pattern) == IF ~Includes(pattern, "*") THEN str = pattern ELSE matchGlob(str, pattern)

evaluatePoolCondition(e, condition) ==
    IF condition.source = "preset"
    THEN e.presetId # NoPreset /\ matchPattern(e.presetId, condition.match)
    ELSE FALSE

RECURSIVE sumPoolScore(_, _, _)
sumPoolScore(e, conditions, i) ==
    IF i > Len(conditions) THEN 0
    ELSE (IF evaluatePoolCondition(e, conditions[i]) THEN Get(conditions[i], "weight", 1) ELSE 0)
         + sumPoolScore(e, conditions, i + 1)

evaluatePoolRules(e, rules) ==
    IF ~Has(rules, "conditions") \/ Len(rules.conditions) = 0 THEN 0
    ELSE sumPoolScore(e, rules.conditions, 1)

\* the pools whose rules the entity satisfies, in the registry's order
RECURSIVE poolMatches(_, _, _)
poolMatches(m, e, i) ==
    IF i > Len(m.order) THEN << >>
    ELSE LET poolId == m.order[i]
             pool == m.pools[poolId]
             score == evaluatePoolRules(e, pool.rules)
         IN IF poolId = DefaultPoolId \/ ~Has(pool.rules, "conditions") \/ score <= 0
            THEN poolMatches(m, e, i + 1)
            ELSE <<[poolId |-> poolId, score |-> score, priority |-> Get(pool.rules, "priority", 0)]>>
                 \o poolMatches(m, e, i + 1)

\* matches.sort(...) by priority, then score, both descending: a stable sort
\* puts first the earliest of the best matches
bestMatch(matches) ==
    LET better(a, b) == a.priority > b.priority \/ (a.priority = b.priority /\ a.score > b.score)
        i == CHOOSE k \in DOMAIN matches :
                 /\ \A j \in DOMAIN matches : ~better(matches[j], matches[k])
                 /\ \A j \in 1..(k - 1) : better(matches[k], matches[j])
    IN matches[i].poolId

getPoolForEntity(m, e) ==
    IF e.poolId # NoPoolId /\ e.poolId \in DOMAIN m.pools THEN e.poolId
    ELSE LET matches == poolMatches(m, e, 1)
         IN IF Len(matches) > 0 THEN bestMatch(matches) ELSE DefaultPoolId

\* the group store() files an entity under: `config:${entity.configId}`
configGroup(e) == <<"config", e.configId>>

addToGroup(m, groupId, entityId) ==
    emit([m EXCEPT !.groups = Put(@, groupId, Get(@, groupId, {}) \cup {entityId})],
         [type |-> "addedToGroup", entityId |-> entityId])

\* nothing is ever refused
storeNeverRefuses(m) == FALSE

\* this.config.maxEntities !== null && this.stored.size >= this.config.maxEntities
storeRefuses(m) == m.maxEntities # NoLimit /\ Cardinality(m.stored) >= m.maxEntities

store(m, e) ==
    IF storeRefuses(m)
    THEN emit(m, [type |-> "storageLimitReached", limit |-> m.maxEntities])
    ELSE emit(addToGroup([m EXCEPT !.stored = @ \cup {e.id}, !.objects = Put(@, e.id, e)],
                         configGroup(e), e.id),
              [type |-> "entityStored", entityId |-> e.id])

\* what store(entity) returns: the entity, or null (0) when it is refused
storeReturns(m, e) == IF storeRefuses(m) THEN 0 ELSE e.id

\* activate(entity), called with the entity object
activate(m, e) ==
    LET m1 == IF e.id \in m.stored THEN m ELSE store(m, e)
    IN emit([m1 EXCEPT !.active = @ \cup {e.id}, !.objects = Put(@, e.id, e)],
            [type |-> "entityActivated", entityId |-> e.id])

deactivate(m, entityId) ==
    IF entityId \notin m.active THEN m
    ELSE emit([m EXCEPT !.active = @ \ {entityId}], [type |-> "entityDeactivated", entityId |-> entityId])

\* the id and preset of a recycled entity; entity.poolId is left as release set it
resetEntityForReuse(e, presetIdOrOverrides, id) ==
    [e EXCEPT !.id = id,
              !.presetId = IF presetIdOrOverrides \in PresetIds THEN presetIdOrOverrides ELSE NoPreset]

\* spawnManager.spawn(presetId) / generate(): << >> stands for null
createEntity(m, presetIdOrOverrides) ==
    IF presetIdOrOverrides = NoPreset THEN <<newEntity(m.nextId, NoPreset)>>
    ELSE IF presetIdOrOverrides \in PresetIds THEN <<newEntity(m.nextId, presetIdOrOverrides)>>
    ELSE << >>

\* engine.spawn(presetIdOrOverrides): the entity is generated (an unknown
\* preset falls back to generate), stored and activated
spawnStored(m, presetIdOrOverrides) ==
    LET e == newEntity(m.nextId, IF presetIdOrOverrides \in PresetIds THEN presetIdOrOverrides ELSE NoPreset)
    IN activate(store([m EXCEPT !.nextId = @ + 1], e), e)

getPoolStats(m, poolId) ==
    LET targetPoolId == IF poolId # NoPoolId THEN poolId ELSE DefaultPoolId
    IN IF targetPoolId \notin DOMAIN m.pools THEN newStats
       ELSE [m.pools[targetPoolId].stats EXCEPT !.size = Len(m.pools[targetPoolId].entities),
                                                !.available = Len(m.pools[targetPoolId].entities)]

\* the pool acquire() pops from or creates in
acquirePoolId(m, targetPoolId) ==
    LET poolId == IF targetPoolId # NoPoolId THEN targetPoolId ELSE DefaultPoolId
    IN IF poolId \in DOMAIN m.pools THEN poolId ELSE DefaultPoolId

acquire(m, presetIdOrOverrides, targetPoolId) ==
    LET poolId == acquirePoolId(m, targetPoolId)
        actualPool == m.pools[poolId]
        fromPool == Len(actualPool.entities) > 0
        got == IF fromPool
               THEN <<resetEntityForReuse(actualPool.entities[Len(actualPool.entities)], presetIdOrOverrides, m.nextId)>>
               ELSE createEntity(m, presetIdOrOverrides)
        m1 == IF fromPool
              THEN [m EXCEPT !.pools[poolId].entities = SubSeq(@, 1, Len(@) - 1),
                             !.pools[poolId].stats.available = @ - 1,
                             !.nextId = @ + 1]
              ELSE [m EXCEPT !.pools[poolId].stats.totalCreated = @ + 1,
                             !.nextId = @ + Len(got)]
    IN IF got = << >> THEN returning(m1, [op |-> "acquire", id |-> 0])
       ELSE LET finalPoolId == IF targetPoolId = NoPoolId THEN getPoolForEntity(m1, got[1]) ELSE poolId
                e == [got[1] EXCEPT !.poolId = finalPoolId]
                m2 == activate(store(m1, e), e)
                m3 == [m2 EXCEPT !.pools[poolId].stats.inUse = @ + 1,
                                 !.pools[poolId].stats.totalAcquired = @ + 1]
            IN returning(emit(m3, [type |-> "entityAcquired", entityId |-> e.id,
                                   fromPool |-> fromPool, poolId |-> finalPoolId]),
                         [op |-> "acquire", id |-> e.id])

\* the entity leaves stored and nothing else
forgetStoredOnly(m, entityId) == [m EXCEPT !.stored = @ \ {entityId}]

\* release(): the entity leaves stored and active, its history is deleted and
\* it is taken out of every group
forgetEntity(m, entityId) ==
    [m EXCEPT !.stored = @ \ {entityId},
              !.active = @ \ {entityId},
              !.objects = Drop(@, entityId),
              !.history = Drop(@, entityId),
              !.groups = [g \in DOMAIN @ |-> @[g] \ {entityId}]]

\* the pool release() credits: the named pool, or the default pool when no
\* pool has that name
releasePoolId(m, e, targetPoolId) ==
    IF targetPoolId # NoPoolId THEN targetPoolId
    ELSE IF e.poolId # NoPoolId THEN e.poolId ELSE DefaultPoolId

release(m, entityId, targetPoolId) ==
    IF entityId \notin m.stored THEN returning(m, [op |-> "release", ok |-> FALSE])
    ELSE LET e == m.objects[entityId]
             poolId == releasePoolId(m, e, targetPoolId)
             key == IF poolId \in DOMAIN m.pools THEN poolId ELSE DefaultPoolId
             m1 == forgetEntity(deactivate(m, entityId), entityId)
             m2 == [m1 EXCEPT !.pools[key].stats.inUse = Max2(0, @ - 1),
                              !.pools[key].stats.totalReleased = @ + 1]
             pool == m2.pools[key]
         IN IF Len(pool.entities) < pool.config.maxSize
            THEN returning(emit([m2 EXCEPT !.pools[key].entities = Append(@, [e EXCEPT !.poolId = poolId]),
                                           !.pools[key].stats.available = @ + 1,
                                           !.pools[key].stats.size = Len(pool.entities) + 1],
                                [type |-> "entityReleased", entityId |-> entityId, toPool |-> TRUE, poolId |-> poolId]),
                           [op |-> "release", ok |-> TRUE])
            ELSE returning(emit(m2, [type |-> "entityReleased", entityId |-> entityId, toPool |-> FALSE, poolId |-> poolId]),
                           [op |-> "release", ok |-> FALSE])

moveToPool(m, entityId, targetPoolId) ==
    IF entityId \notin m.stored THEN returning(m, [op |-> "moveToPool", ok |-> FALSE])
    ELSE IF targetPoolId \notin DOMAIN m.pools THEN returning(m, [op |-> "moveToPool", ok |-> FALSE])
    ELSE LET e == m.objects[entityId]
             fromPoolId == IF e.poolId # NoPoolId THEN e.poolId ELSE DefaultPoolId
             m1 == IF fromPoolId \in DOMAIN m.pools
                   THEN [m EXCEPT !.pools[fromPoolId].stats.inUse = Max2(0, @ - 1)]
                   ELSE m
         IN IF fromPoolId = targetPoolId THEN returning(m, [op |-> "moveToPool", ok |-> TRUE])
            ELSE returning(emit([m1 EXCEPT !.pools[targetPoolId].stats.inUse = @ + 1,
                                           !.objects[entityId].poolId = targetPoolId],
                                [type |-> "entityMovedPool", entityId |-> entityId,
                                 fromPool |-> fromPoolId, toPool |-> targetPoolId]),
                           [op |-> "moveToPool", ok |-> TRUE])

\* the loop of preWarmPool: toCreate entities, each prepared and pushed
\* (_prepareEntityForPool clears fields that are not kept here)
RECURSIVE preWarmLoop(_, _, _, _)
preWarmLoop(m, targetPoolId, presetId, toCreate) ==
    IF toCreate <= 0 THEN m
    ELSE LET got == createEntity(m, presetId)
         IN IF got = << >> THEN preWarmLoop(m, targetPoolId, presetId, toCreate - 1)
            ELSE preWarmLoop([m EXCEPT !.pools[targetPoolId].entities =
                                           Append(@, [got[1] EXCEPT !.poolId = targetPoolId]),
                                       !.pools[targetPoolId].stats.totalCreated = @ + 1,
                                       !.nextId = @ + 1],
                             targetPoolId, presetId, toCreate - 1)

\* the requested count, whatever room the pool has
preWarmCountUncapped(pool, count) == count

\* Math.min(count, pool.config.maxSize - pool.entities.length)
preWarmCount(pool, count) == Min2(count, pool.config.maxSize - Len(pool.entities))

preWarmPool(m, count, presetId, poolId) ==
    LET targetPoolId == IF poolId # NoPoolId THEN poolId ELSE DefaultPoolId
    IN IF targetPoolId \notin DOMAIN m.pools THEN m
       ELSE LET m1 == preWarmLoop(m, targetPoolId, presetId, preWarmCount(m.pools[targetPoolId], count))
            IN [m1 EXCEPT !.pools[targetPoolId].stats.size = Len(m1.pools[targetPoolId].entities),
                          !.pools[targetPoolId].stats.available = Len(m1.pools[targetPoolId].entities)]

clearPool(m, poolId) ==
    LET targetPoolId == IF poolId # NoPoolId THEN poolId ELSE DefaultPoolId
    IN IF targetPoolId \notin DOMAIN m.pools THEN m
       ELSE [m EXCEPT !.pools[targetPoolId].entities = << >>,
                      !.pools[targetPoolId].stats.size = 0,
                      !.pools[targetPoolId].stats.available = 0]

createPool(m, poolId, options) ==
    IF poolId \in DOMAIN m.pools THEN m
    ELSE LET pool == [id |-> poolId,
                      config |-> [maxSize |-> Get(options, "maxSize", defaultMaxSize),
                                  preWarm |-> Get(options, "preWarm", 0),
                                  preWarmPreset |-> Get(options, "preWarmPreset", NoPreset)],
                      stats |-> newStats, entities |-> << >>,
                      rules |-> Get(options, "rules", NoRules)]
             m1 == emit([m EXCEPT !.pools = Put(@, poolId, pool), !.order = Append(@, poolId)],
                        [type |-> "poolCreated", poolId |-> poolId])
         IN IF pool.config.preWarm > 0
            THEN preWarmPool(m1, pool.config.preWarm, pool.config.preWarmPreset, poolId)
            ELSE m1

\* the loop of removePool: a pooled entity goes to the default pool while
\* that pool has room
RECURSIVE moveToDefault(_, _, _)
moveToDefault(m, entities, i) ==
    IF i > Len(entities) THEN m
    ELSE LET defaultPool == m.pools[DefaultPoolId]
         IN IF Len(defaultPool.entities) < defaultPool.config.maxSize
            THEN moveToDefault([m EXCEPT !.pools[DefaultPoolId].entities =
                                             Append(@, [entities[i] EXCEPT !.poolId = DefaultPoolId]),
                                         !.pools[DefaultPoolId].stats.available = @ + 1,
                                         !.pools[DefaultPoolId].stats.size = @ + 1],
                               entities, i + 1)
            ELSE moveToDefault(m, entities, i + 1)

removePool(m, poolId) ==
    IF poolId = DefaultPoolId THEN returning(m, [op |-> "removePool", ok |-> FALSE])
    ELSE IF poolId \notin DOMAIN m.pools THEN returning(m, [op |-> "removePool", ok |-> FALSE])
    ELSE LET m1 == moveToDefault(m, m.pools[poolId].entities, 1)
         IN returning(emit([m1 EXCEPT !.pools = Drop(@, poolId),
                                      !.order = SelectSeq(@, LAMBDA p : p # poolId)],
                           [type |-> "poolRemoved", poolId |-> poolId]),
                      [op |-> "removePool", ok |-> TRUE])

\* configurePool(poolId, config): config merged over the pool's
configurePool(m, poolId, poolConfig) ==
    IF poolId \notin DOMAIN m.pools THEN m
    ELSE LET m1 == [m EXCEPT !.pools[poolId].config = Assign(@, poolConfig)]
             m2 == IF Get(poolConfig, "preWarm", 0) > 0
                   THEN preWarmPool(m1, poolConfig.preWarm, Get(poolConfig, "preWarmPreset", NoPreset), poolId)
                   ELSE m1
         IN emit(m2, [type |-> "poolConfigured", poolId |-> poolId])

\* snapshot(entityId) on the manager's history table: the table maps an
\* entity id to the number of snapshots kept for it
takeSnapshot(m, entityId) ==
    IF entityId \notin m.stored \cup m.active THEN m
    ELSE emit([m EXCEPT !.history = Put(@, entityId, Min2(maxHistory, Get(@, entityId, 0) + 1))],
              [type |-> "snapshotTaken", entityId |-> entityId])

\* Bound of the pooling state machine: the number of public calls made to
\* the manager.
MaxCalls == 4

PoolSizes == {1, 2}

PoolTargets == {NoPoolId, DefaultPoolId, "enemies"}

AcquirePresets == {EnemyGoblin, Wanderer, NoPreset}

\* the acquire calls made: a goblin from any pool, the others without a
\* target pool
AcquireCalls == {<<EnemyGoblin, t>> : t \in PoolTargets} \cup {<<Wanderer, NoPoolId>>, <<NoPreset, NoPoolId>>}

\* every id handed out so far, and one that never was
KnownIds(m) == 1..m.nextId

\* a public call starts with nothing emitted and nothing returned
begin(m) == [m EXCEPT !.emitted = << >>, !.invoked = << >>, !.returned = [op |-> "none"]]

\* what a call leaves in the manager once its events are delivered and its
\* value is returned
settled(m) == [begin(m) EXCEPT !.calls = @ + 1]

(***************************************************************************)
(* Loading (SpawnManager.loadConfig / validateAndNormalize).  A document   *)
(* is normalized field by field; nothing in it is tested.                  *)
(***************************************************************************)
\* a single-condition threshold trigger gets its conditions array; an old
\* autoRemove becomes static mode with removeConditions
normalizeTrigger(trigger) ==
    LET t1 == IF Get(trigger, "type", "") = "threshold" /\ Has(trigger, "target") /\ ~Has(trigger, "conditions")
              THEN Assign(trigger, [conditions |-> <<[target |-> trigger.target,
                                                      operator |-> Get(trigger, "operator", "<="),
                                                      value |-> Get(trigger, "value", 0)]>>,
                                    logic |-> Get(trigger, "logic", "all")])
              ELSE trigger
    IN IF Has(t1, "autoRemove") /\ ~Has(t1, "removeConditions")
       THEN Assign(t1, [static |-> TRUE,
                        removeConditions |-> <<[target |-> Get(t1.autoRemove, "target", Get(t1, "target", "")),
                                                operator |-> Get(t1.autoRemove, "operator", ">="),
                                                value |-> Get(t1.autoRemove, "value", 0)]>>,
                        removeLogic |-> Get(t1, "removeLogic", "all")])
       ELSE t1

\* manual becomes permanent, exclusiveWith becomes an array
normalizeModifierConfig(cfg) ==
    LET c1 == IF Get(cfg, "durationType", "") = "manual" THEN Put(cfg, "durationType", "permanent") ELSE cfg
        c2 == IF Has(c1, "trigger") THEN Put(c1, "trigger", normalizeTrigger(c1.trigger)) ELSE c1
    IN Put(c2, "exclusiveWith", Get(c2, "exclusiveWith", << >>))

normalizeNode(node) ==
    [id |-> node.id, type |-> node.type,
     config |-> IF node.type = "modifier" THEN normalizeModifierConfig(Get(node, "config", << >>))
                ELSE Get(node, "config", << >>)]

\* a rebuilt relationship keeps operation, value, scaling and perPointSource
\* of its config (a null perPointSource is an absent field) and nothing else
normalizeRelationship(rel) ==
    LET written == Get(rel, "config", << >>) IN
    [sourceId |-> rel.sourceId, targetId |-> rel.targetId, type |-> rel.type,
     config |-> [operation |-> Get(written, "operation", "add"),
                 value |-> Get(written, "value", 0),
                 scaling |-> Get(written, "scaling", "flat")]
                @@ (IF Has(written, "perPointSource") THEN [perPointSource |-> written.perPointSource] ELSE << >>),
     conditions |-> Get(rel, "conditions", << >>)]

normalizePreset(preset) ==
    [id |-> preset.id, attributes |-> Get(preset, "attributes", << >>),
     contexts |-> Get(preset, "contexts", << >>), forceTraits |-> Get(preset, "forceTraits", << >>)]

validateAndNormalize(document) ==
    [id |-> Get(document, "id", "unnamed-config"),
     nodes |-> [i \in DOMAIN Get(document, "nodes", << >>) |-> normalizeNode(document.nodes[i])],
     relationships |-> [i \in DOMAIN Get(document, "relationships", << >>) |-> normalizeRelationship(document.relationships[i])],
     presets |-> [i \in DOMAIN Get(document, "presets", << >>) |-> normalizePreset(document.presets[i])]]

\* this.config = this.validateAndNormalize(config); the indexes are rebuilt from it
loadConfig(document) == validateAndNormalize(document)

(***************************************************************************)
(* Recycling an entity's state (EntityManager._prepareEntityForPool and    *)
(* _resetEntityForReuse, as release and a later acquire without preset or  *)
(* overrides apply them to the pooled entity).                             *)
(***************************************************************************)
\* release: log, modifiers, compounds, modifier states and layer actives cleared
prepareEntityForPool(e) ==
    [e EXCEPT !.modifiers = << >>,
              !.compounds = << >>,
              !.modifierStates = << >>,
              !.layers = [l \in DOMAIN e.layers |-> [active |-> << >>]]]

\* every attribute of the config rolled anew on its configured range
rerolledAttributes(e) ==
    LET attrs == getNodesByType("attribute")
        ids == SeqToSet(idsOf(attrs))
        rolls == {f \in [ids -> UNION {rollRange(attributeBaseRange(getNode(a)).min, attributeBaseRange(getNode(a)).max) : a \in ids}] :
                     \A a \in ids : f[a] \in rollRange(attributeBaseRange(getNode(a)).min, attributeBaseRange(getNode(a)).max)}
    IN {[a \in DOMAIN e.attributes \cup ids |-> IF a \in ids THEN f[a] ELSE e.attributes[a]] : f \in rolls}

\* every variable back to its configured start: initial, else min, else 0
resetVariables ==
    [v \in SeqToSet(idsOf(getNodesByType("variable"))) |->
        initialVariable(getNode(v).config, Get(getNode(v).config, "initial", Get(getNode(v).config, "min", 0)))]

\* the spawn-time layers rolled once each, in node order
RECURSIVE rollInitialLayers(_, _, _)
rollInitialLayers(es, layers, i) ==
    IF i > Len(layers) THEN es
    ELSE IF Get(Get(layers[i].config, "timing", << >>), "rollAt", "spawn") \in {"spawn", "create"}
         THEN rollInitialLayers(UNION {rollLayer(e, layers[i].id) : e \in es}, layers, i + 1)
         ELSE rollInitialLayers(es, layers, i + 1)

\* _resetEntityForReuse(entity) on the entity's state: every entity it can leave
resetEntityState(e) ==
    LET cleared == {[e EXCEPT !.attributes = attrs,
                              !.variables = [v \in DOMAIN e.variables \cup DOMAIN resetVariables |->
                                                IF v \in DOMAIN resetVariables THEN resetVariables[v] ELSE e.variables[v]],
                              !.layers = [l \in DOMAIN e.layers |-> [active |-> << >>]],
                              !.modifiers = << >>,
                              !.compounds = << >>,
                              !.modifierStates = << >>,
                              !.derived = << >>,
                              !.presetId = ""] : attrs \in rerolledAttributes(e)}
    IN {runCascade(r) : r \in rollInitialLayers(cleared, getNodesByType("layer"), 1)}

\* release(entity.id) and then acquire() handing the same entity out again
recycled(e) == resetEntityState(prepareEntityForPool(e))

(***************************************************************************)
(* Pool shrinking (EntityManager._scheduleShrinkCheckForPool and           *)
(* _checkPoolShrink).  A pending setTimeout is the time it is due at, kept *)
(* per pool in mgr.timers; mgr.releasedAt and mgr.shrunk record when each  *)
(* pool was last released to and what every shrink did.                    *)
(***************************************************************************)
\* a shrinkThreshold is a ratio, written [num, den]
usageBelow(inUse, available, threshold) ==
    /\ inUse + available > 0
    /\ inUse * threshold.den < threshold.num * (inUse + available)

\* no timer is set while one is pending or when the pool has no shrinkDelay
scheduleShrinkCheckForPool(m, poolId, t) ==
    IF poolId \notin DOMAIN m.pools \/ poolId \in DOMAIN m.timers THEN m
    ELSE IF Get(m.pools[poolId].config, "shrinkDelay", 0) = 0 THEN m
    ELSE [m EXCEPT !.timers = Put(@, poolId, t + m.pools[poolId].config.shrinkDelay)]

\* usage below the threshold and more than 10 available: pop down to
\* max(10, floor(available / 2))
checkPoolShrink(m, poolId, t) ==
    IF poolId \notin DOMAIN m.pools THEN m
    ELSE LET pool == m.pools[poolId]
             targetSize == Max2(10, Len(pool.entities) \div 2)
         IN IF usageBelow(pool.stats.inUse, Len(pool.entities), pool.config.shrinkThreshold) /\ Len(pool.entities) > 10
            THEN [m EXCEPT !.pools[poolId].entities = SubSeq(@, 1, targetSize),
                           !.pools[poolId].stats.size = targetSize,
                           !.pools[poolId].stats.available = targetSize,
                           !.shrunk = Append(@, [poolId |-> poolId, at |-> t, releasedAt |-> Get(m.releasedAt, poolId, 0),
                                                 before |-> Len(pool.entities), after |-> targetSize])]
            ELSE m

\* the timer's callback: the timer is cleared, then the pool is checked
shrinkTimeout(m, poolId, t) == checkPoolShrink([m EXCEPT !.timers = Drop(@, poolId)], poolId, t)

\* release(entityId) at time t: a release that pooled the entity schedules
\* the shrink check of that pool
releaseAt(m, entityId, t) ==
    LET r == release(m, entityId, NoPoolId)
    IN IF r.returned = [op |-> "release", ok |-> TRUE]
       THEN LET poolId == releasePoolId(m, m.objects[entityId], NoPoolId)
            IN scheduleShrinkCheckForPool([r EXCEPT !.releasedAt = Put(@, poolId, t)], poolId, t)
       ELSE r

(***************************************************************************)
(* The threshold-modifier pass with a listener on modifierApplied and      *)
(* modifierRemoved.  The listener answers every event about the entity the *)
(* pass runs on by writing to another entity: it applies a modifier to it  *)
(* (kind "applyOther") or runs checkModifierThresholds on it (kind         *)
(* "checkOther").  st = [e, other, batching, dirty, stale, otherStale]:    *)
(* the manager's two flags, and for each entity whether a write to it has  *)
(* had no cascade run on that entity since.                                *)
(***************************************************************************)
\* _runCascade(entity) for the entity of the pass, after a write to it
cascadeOrDefer(st, written) ==
    IF st.batching THEN [st EXCEPT !.e = written, !.dirty = TRUE, !.stale = TRUE]
    ELSE [st EXCEPT !.e = runCascade(written), !.stale = FALSE]

\* the listener's call, made from inside emit
listenerReacts(st, listener, t) ==
    CASE listener.kind = "applyOther" ->
            LET written == applyModifierState(st.other, listener.modifierId, getNode(listener.modifierId).config, t)
            IN IF st.batching THEN [st EXCEPT !.other = written, !.dirty = TRUE, !.otherStale = TRUE]
               ELSE [st EXCEPT !.other = runCascade(written), !.otherStale = FALSE]
      [] listener.kind = "checkOther" ->
            [st EXCEPT !.other = checkModifierThresholds(st.other, t), !.batching = FALSE, !.dirty = FALSE]
      [] OTHER -> st

\* applyModifier / removeModifier of the pass: the write, _runCascade, emit
applyAndEmit(st, modifierId, cfg, listener, t) ==
    listenerReacts(cascadeOrDefer(st, applyModifierState(st.e, modifierId, cfg, t)), listener, t)

removeAndEmit(st, modifierId, listener, t) ==
    listenerReacts(cascadeOrDefer(st, removeModifierState(st.e, modifierId)), listener, t)

RECURSIVE listeningLoop(_, _, _, _, _)
listeningLoop(st, groupWinners, i, listener, t) ==
    IF i > Len(thresholdModifiers) THEN st
    ELSE LET modifier == thresholdModifiers[i]
             trigger == modifier.config.trigger
             isActive == Includes(st.e.modifiers, modifier.id)
             isStatic == Get(trigger, "static", FALSE)
             shouldApply == evaluateModifierTrigger(st.e, trigger)
             applied == applyAndEmit(st, modifier.id, Put(modifier.config, "isStatic", isStatic), listener, t)
             removed == removeAndEmit(st, modifier.id, listener, t)
             next == IF modifier.id \in DOMAIN groupWinners
                     THEN IF groupWinners[modifier.id] /\ ~isActive THEN applied
                          ELSE IF ~groupWinners[modifier.id] /\ isActive THEN removed
                          ELSE st
                     ELSE IF ~isActive /\ shouldApply THEN applied
                          ELSE IF isActive /\ isStatic /\ evaluateRemoveConditions(st.e, trigger) THEN removed
                          ELSE st
         IN listeningLoop(next, groupWinners, i + 1, listener, t)

\* the flush: batching off, the triple on the entity of the pass if dirty
flushListening(st) ==
    IF st.dirty THEN [st EXCEPT !.batching = FALSE, !.dirty = FALSE, !.e = runCascade(st.e), !.stale = FALSE]
    ELSE [st EXCEPT !.batching = FALSE]

\* checkModifierThresholds(e) with the listener subscribed; e carries the
\* `cascades` counter
checkModifierThresholdsListening(e, other, listener, t) ==
    flushListening(listeningLoop([e |-> e @@ [cascades |-> 0], other |-> other, batching |-> TRUE, dirty |-> FALSE,
                                  stale |-> FALSE, otherStale |-> FALSE],
                                 resolveExclusiveGroups(e), 1, listener, t))

(***************************************************************************)
(* Emitting to listeners that unsubscribe (on/off/emit of the reference    *)
(* EntityManager, which keeps a Set per event, and on/emit of              *)
(* src/engine.js, which keeps an array).  A callback is [id, unsubscribes]: *)
(* when invoked it calls the unsubscribe function of the callback named by *)
(* `unsubscribes` ("" for none).  The listeners of the one event are a     *)
(* sequence in subscription order.                                         *)
(***************************************************************************)
\* the unsubscribe function on() returned: the callback leaves the list
unsubscribe(callbacks, id) == SelectSeq(callbacks, LAMBDA cb : cb.id # id)

\* Set.prototype.forEach: an entry deleted before its turn is not visited,
\* and a deletion moves no other entry's turn.  st = [listeners, pending, invoked]
RECURSIVE emitForEach(_)
emitForEach(st) ==
    IF st.pending = << >> THEN st
    ELSE LET cb == Head(st.pending)
         IN emitForEach([listeners |-> unsubscribe(st.listeners, cb.unsubscribes),
                         pending |-> unsubscribe(Tail(st.pending), cb.unsubscribes),
                         invoked |-> Append(st.invoked, cb.id)])

\* for (const callback of callbacks) over the array the unsubscribe function
\* splices: the iterator goes by index on the live array.  st = [listeners, index, invoked]
RECURSIVE emitForOf(_)
emitForOf(st) ==
    IF st.index > Len(st.listeners) THEN st
    ELSE LET cb == st.listeners[st.index]
         IN emitForOf([listeners |-> unsubscribe(st.listeners, cb.unsubscribes),
                       index |-> st.index + 1,
                       invoked |-> Append(st.invoked, cb.id)])

\* emit(event) of either engine: the listeners left and the callbacks invoked
emitUnsubscribing(m) ==
    LET done == IF m.engine = "reference"
                THEN emitForEach([listeners |-> m.listeners, pending |-> m.listeners, invoked |-> << >>])
                ELSE emitForOf([listeners |-> m.listeners, index |-> 1, invoked |-> << >>])
    IN [m EXCEPT !.listeners = done.listeners, !.invoked = done.invoked, !.returned = [op |-> "emit"]]

Init ==
    /\ config \in Configs
    /\ entity = NoEntity
    /\ stored = FALSE
    /\ active = FALSE
    /\ history = << >>
    /\ now = 0
    /\ mgr = newManager(NoLimit)

\* engine.spawn(): generate, store, activate
Spawn ==
    /\ ~stored
    /\ entity' \in generate(NoOverrides)
    /\ stored' = TRUE
    /\ active' = TRUE
    /\ UNCHANGED <<config, history, now, mgr>>

\* engine.spawn(presetId)
SpawnPreset ==
    /\ ~stored
    /\ \E p \in PresetIds : entity' \in spawn(p)
    /\ stored' = TRUE
    /\ active' = TRUE
    /\ UNCHANGED <<config, history, now, mgr>>

\* engine.despawn(id)
Despawn ==
    /\ stored
    /\ entity' = NoEntity
    /\ stored' = FALSE
    /\ active' = FALSE
    /\ history' = << >>
    /\ UNCHANGED <<config, now, mgr>>

\* engine.tick(entity, deltaSeconds): activates the entity first
Tick ==
    /\ stored
    /\ \E d \in TickSeconds : entity' = tick(entity, d, now)
    /\ active' = TRUE
    /\ UNCHANGED <<config, stored, history, now, mgr>>

SetVariable ==
    /\ stored
    /\ \E v \in VariableIds, x \in SetValues : entity' = setVariable(entity, v, x, now)
    /\ UNCHANGED <<config, stored, active, history, now, mgr>>

ModifyVariable ==
    /\ stored
    /\ \E v \in VariableIds, d \in Deltas : entity' = modifyVariable(entity, v, d, now)
    /\ UNCHANGED <<config, stored, active, history, now, mgr>>

\* engine.applyModifier(entity, modifierId): the node's config is passed on
ApplyModifier ==
    /\ stored
    /\ \E m \in ModifierIds : entity' = engineApplyModifier(entity, m, now)
    /\ UNCHANGED <<config, stored, active, history, now, mgr>>

RemoveModifier ==
    /\ stored
    /\ \E m \in ModifierIds : entity' = removeModifier(entity, m)
    /\ UNCHANGED <<config, stored, active, history, now, mgr>>

ActivateTrait ==
    /\ stored
    /\ \E t \in TraitIds : entity' = emActivateTrait(entity, t)
    /\ UNCHANGED <<config, stored, active, history, now, mgr>>

DeactivateTrait ==
    /\ stored
    /\ \E t \in TraitIds : entity' = emDeactivateTrait(entity, t)
    /\ UNCHANGED <<config, stored, active, history, now, mgr>>

RollLayer ==
    /\ stored
    /\ \E l \in LayerIds : entity' \in rollLayer(entity, l)
    /\ UNCHANGED <<config, stored, active, history, now, mgr>>

RollOutcome ==
    /\ stored
    /\ \E l \in LayerIds : entity' \in rollOutcome(entity, l, 1)
    /\ UNCHANGED <<config, stored, active, history, now, mgr>>

ExecuteAction ==
    /\ stored
    /\ \E a \in ActionIds : entity' = executeAction(entity, a)
    /\ UNCHANGED <<config, stored, active, history, now, mgr>>

Snapshot ==
    /\ stored
    /\ Len(history) < MaxSnapshots
    /\ history' = snapshot(history, entity, now)
    /\ UNCHANGED <<config, entity, stored, active, now, mgr>>

\* rollback(id, timestamp) with the timestamp of a snapshot that was taken
Rollback ==
    /\ stored
    /\ \E i \in DOMAIN history : entity' = rollback(entity, history, history[i].timestamp)
    /\ UNCHANGED <<config, stored, active, history, now, mgr>>

\* the wall clock (Date.now()) moves on
Tock ==
    /\ now < MaxTime
    /\ now' = now + 1
    /\ UNCHANGED <<config, entity, stored, active, history, mgr>>

Next ==
    \/ Spawn
    \/ SpawnPreset
    \/ Despawn
    \/ Tick
    \/ SetVariable
    \/ ModifyVariable
    \/ ApplyModifier
    \/ RemoveModifier
    \/ ActivateTrait
    \/ DeactivateTrait
    \/ RollLayer
    \/ RollOutcome
    \/ ExecuteAction
    \/ Tock

Spec == Init /\ [][Next]_vars

\* The engine with its state history in use: the entity is spawned, its
\* variables and modifiers are driven by hand, snapshots are taken and
\* rolled back to.
InitHistory ==
    /\ config \in HistoryConfigs
    /\ entity = NoEntity
    /\ stored = FALSE
    /\ active = FALSE
    /\ history = << >>
    /\ now = 0
    /\ mgr = newManager(NoLimit)

NextHistory ==
    \/ Spawn
    \/ Tick
    \/ SetVariable
    \/ ModifyVariable
    \/ ApplyModifier
    \/ RemoveModifier
    \/ Snapshot
    \/ Rollback
    \/ Tock

SpecHistory == InitHistory /\ [][NextHistory]_vars

\* the configurations the threshold-modifier pass is exercised on
ThresholdConfigs == {ConfigWounds, ConfigVigor, ConfigTiers}

\* The engine with exclusive groups of threshold modifiers: the entity is
\* spawned, its variable is ticked and written, modifiers are applied and
\* removed by hand.
InitThresholds ==
    /\ config \in ThresholdConfigs
    /\ entity = NoEntity
    /\ stored = FALSE
    /\ active = FALSE
    /\ history = << >>
    /\ now = 0
    /\ mgr = newManager(NoLimit)

NextThresholds ==
    \/ Spawn
    \/ Tick
    \/ SetVariable
    \/ ModifyVariable
    \/ ApplyModifier
    \/ RemoveModifier

SpecThresholds == InitThresholds /\ [][NextThresholds]_vars

\* engine.createPool('enemies', options)
CreatePool ==
    /\ mgr.calls < MaxCalls
    /\ \E size \in PoolSizes, rules \in {NoRules, EnemyRules}, preWarm \in {0, 1} :
           mgr' = settled(createPool(mgr, "enemies",
                             [maxSize |-> size, rules |-> rules, preWarm |-> preWarm, preWarmPreset |-> EnemyGoblin]))
    /\ mgr' # mgr
    /\ UNCHANGED <<config, entity, stored, active, history, now>>

\* engine.removePool(poolId)
RemovePool ==
    /\ mgr.calls < MaxCalls
    /\ \E poolId \in {DefaultPoolId, "enemies"} : mgr' = settled(removePool(mgr, poolId))
    /\ UNCHANGED <<config, entity, stored, active, history, now>>

\* engine.configurePool({ maxSize }): the default pool made small
ConfigurePool ==
    /\ mgr.calls < MaxCalls
    /\ \E poolId \in {DefaultPoolId}, size \in PoolSizes :
           mgr' = settled(configurePool(mgr, poolId, [maxSize |-> size]))
    /\ UNCHANGED <<config, entity, stored, active, history, now>>

\* entityManager.acquire(presetIdOrOverrides, {}, targetPoolId)
Acquire ==
    /\ mgr.calls < MaxCalls
    /\ \E call \in AcquireCalls : mgr' = settled(acquire(mgr, call[1], call[2]))
    /\ UNCHANGED <<config, entity, stored, active, history, now>>

\* entityManager.release(entityId, targetPoolId)
Release ==
    /\ mgr.calls < MaxCalls
    /\ \E entityId \in KnownIds(mgr), targetPoolId \in PoolTargets :
           mgr' = settled(release(mgr, entityId, targetPoolId))
    /\ UNCHANGED <<config, entity, stored, active, history, now>>

\* engine.moveToPool(entityId, targetPoolId)
MoveToPool ==
    /\ mgr.calls < MaxCalls
    /\ \E entityId \in KnownIds(mgr), targetPoolId \in {DefaultPoolId, "enemies"} :
           mgr' = settled(moveToPool(mgr, entityId, targetPoolId))
    /\ UNCHANGED <<config, entity, stored, active, history, now>>

\* engine.preWarmPool(count, presetId, poolId)
PreWarmPool ==
    /\ mgr.calls < MaxCalls
    /\ \E count \in {1, 2}, presetId \in {EnemyGoblin}, poolId \in {NoPoolId, "enemies"} :
           mgr' = settled(preWarmPool(mgr, count, presetId, poolId))
    /\ UNCHANGED <<config, entity, stored, active, history, now>>

\* engine.clearPool(poolId)
ClearPool ==
    /\ mgr.calls < MaxCalls
    /\ \E poolId \in {NoPoolId, "enemies"} :
           mgr' = settled(clearPool(mgr, poolId))
    /\ UNCHANGED <<config, entity, stored, active, history, now>>

\* engine.snapshot(entityId), on the manager's tables
TakeSnapshot ==
    /\ mgr.calls < MaxCalls
    /\ \E entityId \in mgr.stored \cup mgr.active :
           /\ Get(mgr.history, entityId, 0) < MaxSnapshots
           /\ mgr' = settled(takeSnapshot(mgr, entityId))
    /\ UNCHANGED <<config, entity, stored, active, history, now>>

\* The manager with its pools in use: pools are created, configured, warmed,
\* cleared and removed; entities are acquired, snapshotted, moved between
\* pools and released.  The storage limit is unset or one entity.
InitPools ==
    /\ config = ConfigArena
    /\ entity = NoEntity
    /\ stored = FALSE
    /\ active = FALSE
    /\ history = << >>
    /\ now = 0
    /\ mgr \in {newManager(NoLimit), newManager(1)}

NextPools ==
    \/ CreatePool
    \/ RemovePool
    \/ ConfigurePool
    \/ Acquire
    \/ Release
    \/ MoveToPool
    \/ PreWarmPool
    \/ ClearPool
    \/ TakeSnapshot

SpecPools == InitPools /\ [][NextPools]_vars

\* The callbacks a caller subscribes: the first throws whenever it is called
Callbacks == {[id |-> "thrower", throws |-> TRUE], [id |-> "logger", throws |-> FALSE],
              [id |-> "counter", throws |-> FALSE]}

ListenedEvents == {"entityAcquired", "entityReleased"}

On ==
    /\ mgr.calls < MaxCalls
    /\ \E type \in ListenedEvents, callback \in Callbacks :
          mgr' = settled(on(mgr, type, callback))
    /\ UNCHANGED <<config, entity, stored, active, history, now>>

Off ==
    /\ mgr.calls < MaxCalls
    /\ \E type \in ListenedEvents, callback \in Callbacks :
          /\ Includes(subscribers(mgr.listeners, type), callback)
          /\ mgr' = settled(off(mgr, type, callback))
    /\ UNCHANGED <<config, entity, stored, active, history, now>>

\* The manager with listeners: callbacks subscribe and unsubscribe while
\* entities are acquired and released.
NextEvents ==
    \/ On
    \/ Off
    \/ Acquire
    \/ Release

SpecEvents == InitPools /\ [][NextEvents]_vars

\* The engine generating entities whose attributes depend on the traits
\* rolled before them: entities are spawned and despawned, layers re-rolled
\* and traits switched by hand.
InitSpawn ==
    /\ config = ConfigBreed
    /\ entity = NoEntity
    /\ stored = FALSE
    /\ active = FALSE
    /\ history = << >>
    /\ now = 0
    /\ mgr = newManager(NoLimit)

NextSpawn ==
    \/ Spawn
    \/ Despawn
    \/ RollLayer
    \/ ActivateTrait
    \/ DeactivateTrait

SpecSpawn == InitSpawn /\ [][NextSpawn]_vars

\* engine.loadConfig(document), while no entity is stored
LoadConfig ==
    /\ ~stored
    /\ \E document \in Documents : config' = loadConfig(document)
    /\ UNCHANGED <<entity, stored, active, history, now, mgr>>

\* The engine being given one document after another: a config is loaded,
\* entities of it are spawned, re-rolled and despawned, another is loaded.
InitLoad ==
    /\ config = ConfigParty
    /\ entity = NoEntity
    /\ stored = FALSE
    /\ active = FALSE
    /\ history = << >>
    /\ now = 0
    /\ mgr = newManager(NoLimit)

NextLoad ==
    \/ LoadConfig
    \/ Spawn
    \/ Despawn
    \/ RollLayer
    \/ ActivateTrait
    \/ DeactivateTrait

SpecLoad == InitLoad /\ [][NextLoad]_vars

\* the configs a caller hands to EntityManager.applyModifier itself: none
\* (the default {}), or a timed refresh
CallerConfigs == {<< >>, [stacking |-> "refresh", durationType |-> "timed", duration |-> 1]}

\* entityManager.applyModifier(entityId, modifierId, config)
ApplyModifierWith ==
    /\ stored
    /\ \E m \in ModifierIds, cfg \in CallerConfigs : entity' = applyModifier(entity, m, cfg, now)
    /\ UNCHANGED <<config, stored, active, history, now, mgr>>

\* Static threshold modifiers with the manager's own applyModifier in reach:
\* modifiers are applied by the threshold pass and by callers with a config
\* of their own, and removed by hand, while time passes.
InitStatic ==
    /\ config = ConfigWounds
    /\ entity = NoEntity
    /\ stored = FALSE
    /\ active = FALSE
    /\ history = << >>
    /\ now = 0
    /\ mgr = newManager(NoLimit)

NextStatic ==
    \/ Spawn
    \/ Tick
    \/ SetVariable
    \/ ApplyModifierWith
    \/ RemoveModifier
    \/ Tock

SpecStatic == InitStatic /\ [][NextStatic]_vars

\* The threshold arbiter at work on the climate config: the variable is
\* driven by ticks and writes, modifiers are applied and removed by hand.
InitArbiter ==
    /\ config = ConfigClimate
    /\ entity = NoEntity
    /\ stored = FALSE
    /\ active = FALSE
    /\ history = << >>
    /\ now = 0
    /\ mgr = newManager(NoLimit)

SpecArbiter == InitArbiter /\ [][NextThresholds]_vars

\* An entity of a config whose rolled layers list threshold-mode traits:
\* spawned, its layers rolled, traits forced on and off, despawned.
InitRoll ==
    /\ config = ConfigMuster
    /\ entity = NoEntity
    /\ stored = FALSE
    /\ active = FALSE
    /\ history = << >>
    /\ now = 0
    /\ mgr = newManager(NoLimit)

SpecRoll == InitRoll /\ [][NextSpawn]_vars

\* An engine that loaded a document with perPoint relationships: entities
\* are spawned, their layers rolled, traits forced on and off, despawned.
InitScale ==
    /\ config = loadConfig(DocShy)
    /\ entity = NoEntity
    /\ stored = FALSE
    /\ active = FALSE
    /\ history = << >>
    /\ now = 0
    /\ mgr = newManager(NoLimit)

SpecScale == InitScale /\ [][NextSpawn]_vars

\* engine.release(entity.id) followed by engine.acquire(), which hands the
\* pooled entity out again
Recycle ==
    /\ stored
    /\ entity' \in recycled(entity)
    /\ active' = TRUE
    /\ UNCHANGED <<config, stored, history, now, mgr>>

\* A pooled entity in use: spawned, ticked, its variables set, its traits
\* forced on and off, its actions executed, released and acquired again.
InitReuse ==
    /\ config \in {ConfigParty, ConfigBuffs}
    /\ entity = NoEntity
    /\ stored = FALSE
    /\ active = FALSE
    /\ history = << >>
    /\ now = 0
    /\ mgr = newManager(NoLimit)

NextReuse ==
    \/ Spawn
    \/ Despawn
    \/ Tick
    \/ SetVariable
    \/ ActivateTrait
    \/ DeactivateTrait
    \/ ExecuteAction
    \/ Recycle

SpecReuse == InitReuse /\ [][NextReuse]_vars

MaxPoolCalls == 5

MaxClock == 3

\* entityManager.preWarmPool(count) on the default pool
PreWarmDefault ==
    /\ mgr.calls < MaxPoolCalls
    /\ \E count \in {12, 22} : mgr' = settled(preWarmPool(mgr, count, NoPreset, NoPoolId))
    /\ UNCHANGED <<config, entity, stored, active, history, now>>

\* entityManager.acquire()
AcquireDefault ==
    /\ mgr.calls < MaxPoolCalls
    /\ mgr' = settled(acquire(mgr, NoPreset, NoPoolId))
    /\ UNCHANGED <<config, entity, stored, active, history, now>>

\* entityManager.release(entityId) at the current time
ReleaseDefault ==
    /\ mgr.calls < MaxPoolCalls
    /\ \E entityId \in mgr.stored : mgr' = settled(releaseAt(mgr, entityId, now))
    /\ UNCHANGED <<config, entity, stored, active, history, now>>

\* a timer that is due runs its callback
ShrinkTimeout ==
    /\ \E poolId \in DOMAIN mgr.timers :
           /\ mgr.timers[poolId] <= now
           /\ mgr' = shrinkTimeout(mgr, poolId, now)
    /\ UNCHANGED <<config, entity, stored, active, history, now>>

\* time passes once every timer that is due has run
ClockTick ==
    /\ now < MaxClock
    /\ \A poolId \in DOMAIN mgr.timers : mgr.timers[poolId] > now
    /\ now' = now + 1
    /\ UNCHANGED <<config, entity, stored, active, history, mgr>>

\* A manager whose default pool shrinks after two units of time below half
\* usage: the pool is pre-warmed, entities are acquired and released as
\* time passes, and shrink timers run when due.
InitShrink ==
    /\ config = ConfigArena
    /\ entity = NoEntity
    /\ stored = FALSE
    /\ active = FALSE
    /\ history = << >>
    /\ now = 0
    /\ mgr = [newManager(NoLimit) EXCEPT !.pools[DefaultPoolId].config =
                                            @ @@ [shrinkThreshold |-> [num |-> 1, den |-> 2], shrinkDelay |-> 2]]
                @@ [timers |-> << >>, releasedAt |-> << >>, shrunk |-> << >>]

NextShrink ==
    \/ PreWarmDefault
    \/ AcquireDefault
    \/ ReleaseDefault
    \/ ShrinkTimeout
    \/ ClockTick

SpecShrink == InitShrink /\ [][NextShrink]_vars

\* The callbacks subscribed: one unsubscribes itself when called, one
\* unsubscribes the logger, two only listen.
UnsubscribingCallbacks ==
    {[id |-> "once", unsubscribes |-> "once"], [id |-> "guard", unsubscribes |-> "logger"],
     [id |-> "logger", unsubscribes |-> ""], [id |-> "counter", unsubscribes |-> ""]}

\* on(event, callback) with a callback that is not subscribed
Subscribe ==
    /\ \E callback \in UnsubscribingCallbacks :
           /\ ~Includes(mgr.listeners, callback)
           /\ mgr' = [mgr EXCEPT !.listeners = Append(@, callback), !.invoked = << >>, !.returned = [op |-> "on"]]
    /\ UNCHANGED <<config, entity, stored, active, history, now>>

\* the unsubscribe function called between emits
Unsubscribe ==
    /\ \E i \in DOMAIN mgr.listeners :
           mgr' = [mgr EXCEPT !.listeners = unsubscribe(@, mgr.listeners[i].id), !.invoked = << >>, !.returned = [op |-> "off"]]
    /\ UNCHANGED <<config, entity, stored, active, history, now>>

Emit ==
    /\ mgr' = emitUnsubscribing(mgr)
    /\ UNCHANGED <<config, entity, stored, active, history, now>>

\* Either engine with listeners on one event: callbacks subscribe, the
\* event is emitted, callbacks unsubscribe during the emit and between emits.
InitEmit ==
    /\ config = ConfigArena
    /\ entity = NoEntity
    /\ stored = FALSE
    /\ active = FALSE
    /\ history = << >>
    /\ now = 0
    /\ mgr \in {[engine |-> e, listeners |-> << >>, invoked |-> << >>, returned |-> [op |-> "none"]] : e \in {"reference", "src"}}

NextEmit ==
    \/ Subscribe
    \/ Unsubscribe
    \/ Emit

SpecEmit == InitEmit /\ [][NextEmit]_vars

(***************************************************************************)
(* Properties.                                                             *)
(***************************************************************************)
Compounds == SeqToSet(getNodesByType("compound"))

\* the fields the cascade writes
cascadeFields(e) ==
    [rates |-> [v \in DOMAIN e.variables |-> e.variables[v].currentRate], compounds |-> e.compounds, derived |-> e.derived]

ratesOf(e) == [v \in DOMAIN e.variables |-> e.variables[v].currentRate]

\* C1: after any public mutation every variable of the entity satisfies
\* min <= value <= max, also when the configured initial value (or the
\* default of 100) lies outside [min, max].
C1_VariablesWithinBounds ==
    stored => \A v \in DOMAIN entity.variables :
                 entity.variables[v].min <= entity.variables[v].value /\ entity.variables[v].value <= entity.variables[v].max

\* two modifiers of one exclusive group (exclusiveWith, closed transitively)
sameExclusiveGroup(a, b) ==
    a # b /\ a \in DOMAIN exclusiveGroups.sets /\ Includes(collectGroup([group |-> <<a>>, queue |-> <<a>>]), b)

\* C2: whenever a public operation has returned, no two mutually exclusive
\* modifiers (directly or transitively through exclusiveWith) are both in
\* entity.modifiers, manual applications and trigger-less members included.
C2_NoExclusivePair ==
    stored => \A i, j \in DOMAIN entity.modifiers : ~sameExclusiveGroup(entity.modifiers[i], entity.modifiers[j])

\* C3: a modifier id is in entity.modifiers if and only if it is a key of the
\* entity's modifier-state map, also across snapshot and rollback.
C3_ModifierStateSync ==
    stored => SeqToSet(entity.modifiers) = DOMAIN entity.modifierStates

\* C4: after any public mutation returns, every compound is in
\* entity.compounds if and only if its requirements are met in the
\* resulting state (variable thresholds and other compounds included).
C4_CompoundsMatchRequirements ==
    stored => \A c \in Compounds : Includes(entity.compounds, c.id) <=> checkCompoundRequirements(entity, c)

\* C5: if a trait t with incompatibleWith = I is active, no member of I is
\* active, also when only t lists the other trait.
C5_NoIncompatiblePair ==
    stored => \A t \in SeqToSet(getTraits) : isNodeActive(entity, t.id) => ~hasIncompatibility(entity, t)

\* C6: the number of active traits in each layer L never exceeds
\* L.selection.maxItems (default 10).
C6_LayerWithinMaxItems ==
    stored => \A l \in LayerIds \cap DOMAIN entity.layers :
                 Len(entity.layers[l].active) <= Get(Get(getNode(l).config, "selection", << >>), "maxItems", 10)

\* C7: in every reachable entity state each id in layers[L].active is a trait
\* node whose config.layerId equals L, and no id appears twice in the list.
C7_ActiveTraitsBelong ==
    \A l \in DOMAIN entity.layers :
        \A i \in DOMAIN entity.layers[l].active :
            LET id == entity.layers[l].active[i]
            IN /\ HasNode(id)
               /\ isTrait(getNode(id))
               /\ Get(getNode(id).config, "layerId", "undefined") = l
               /\ \A j \in DOMAIN entity.layers[l].active : entity.layers[l].active[j] = id => j = i

\* C7's case: a layer holds two or more active traits, one of them listed by
\* a second layer
C7_Witness ==
    /\ stored
    /\ Len(LayerActive(entity, "hand")) >= 2
    /\ Includes(LayerActive(entity, "hand"), "queen")
    /\ Len(LayerActive(entity, "stance")) >= 2

\* the states a handler hands to the cascade: the entity after the write of
\* applyModifier, removeModifier, activateTrait or deactivateTrait
beforeCascade(e) ==
    {applyModifierState(e, m, getNode(m).config, now) : m \in ModifierIds}
    \cup {removeModifierState(e, m) : m \in {x \in ModifierIds : Includes(e.modifiers, x)}}
    \cup {activateTrait(e, t) : t \in {x \in TraitIds : activateTraitOk(e, x)}}
    \cup {deactivateTrait(e, t) : t \in {x \in TraitIds : deactivateTraitOk(e, x)}}

\* C8: the cascade triple is idempotent: a second run immediately after the
\* first leaves every currentRate, entity.compounds and entity.derived
\* unchanged.
C8_CascadeIdempotent ==
    stored => \A x \in beforeCascade(entity) : cascadeFields(runCascade(runCascade(x))) = cascadeFields(runCascade(x))

\* the states reached by a completed cascade
afterCascade(e) == {runCascade(x) : x \in beforeCascade(e)}

\* C9: from a state reached after a completed cascade, applyModifier(m)
\* immediately followed by removeModifier(m), for m not applied, leaves the
\* currentRate of every variable as it was.
C9_ApplyRemoveRestoresRates ==
    stored => \A y \in afterCascade(entity) : \A m \in ModifierIds :
                 ~Includes(y.modifiers, m) =>
                     ratesOf(removeModifier(applyModifier(y, m, getNode(m).config, now), m)) = ratesOf(y)

\* the fields rollback is to restore
restoredFields(e) ==
    [attributes |-> e.attributes, contexts |-> e.contexts, layers |-> e.layers,
     modifiers |-> e.modifiers, compounds |-> e.compounds, derived |-> e.derived]

\* the mutations tried between snapshot and rollback
mutationsOf(e) ==
    {e}
    \cup {setVariable(e, v, x, now) : v \in VariableIds, x \in SetValues}
    \cup {applyModifier(e, m, getNode(m).config, now) : m \in ModifierIds}
    \cup {removeModifier(e, m) : m \in ModifierIds}
    \cup {tick(e, d, now) : d \in TickSeconds}

\* C10: snapshot, then mutations, then rollback to the snapshot's timestamp
\* leaves attributes, contexts, layers, modifiers, compounds and derived
\* exactly as they were at the snapshot.
C10_RollbackRestores ==
    stored => \A e1 \in mutationsOf(entity) :
                 restoredFields(rollback(e1, snapshot(history, entity, now), now)) = restoredFields(entity)

\* C11: after rollback returns true, the currentRate of every variable is the
\* rate recalculateRates computes from the restored state, not the rate that
\* was in effect just before the rollback.
C11_RollbackRecomputesRates ==
    [][Rollback => ratesOf(entity') = ratesOf(recalculateRates(entity'))]_vars

\* the exclusive group of a modifier, as a set
groupOf(m) == SeqToSet(collectGroup([group |-> <<m>>, queue |-> <<m>>]))

\* the single leaf of a threshold modifier's trigger
leafOf(m) == getNode(m).config.trigger.conditions[1]

\* every member of the group has a single-leaf threshold trigger on variable
\* v with an operator of ops
uniformGroup(g, v, ops) ==
    \A m \in g : /\ isThresholdModifier(m)
                 /\ Len(Get(getNode(m).config.trigger, "conditions", << >>)) = 1
                 /\ Get(leafOf(m), "type", "") # "group"
                 /\ Get(leafOf(m), "target", "") = v
                 /\ Get(leafOf(m), "operator", "") \in ops

\* the members of g whose trigger passes on the value of v
qualifying(e, g, v) == {m \in g : evaluateThreshold(e.variables[v].value, leafOf(m))}

\* the active members of g are exactly one qualifying member of extreme
\* threshold (sign 1: lowest, sign -1: highest), or none when none qualifies
extremeMemberOnly(e, g, v, sign) ==
    LET act == g \cap SeqToSet(e.modifiers)
        q == qualifying(e, g, v)
    IN IF q = {} THEN act = {}
       ELSE \E w \in q : act = {w} /\ \A x \in q : sign * leafOf(w).value <= sign * leafOf(x).value

\* the exclusive groups of the configuration
exclusiveGroupSets == {groupOf(m) : m \in ModifierIds}

groupsResolved(e, v, groups) ==
    \A g \in groups :
        /\ Cardinality(g) > 1 /\ uniformGroup(g, v, {"<", "<="}) => extremeMemberOnly(e, g, v, 1)
        /\ Cardinality(g) > 1 /\ uniformGroup(g, v, {">", ">="}) => extremeMemberOnly(e, g, v, -1)

\* the results of the setVariable, modifyVariable and tick calls that change
\* variable v
afterVariableChange(e, v) ==
    {r \in {setVariable(e, v, x, now) : x \in SetValues}
            \cup {modifyVariable(e, v, d, now) : d \in Deltas}
            \cup {tick(e, d, now) : d \in TickSeconds} : r.variables[v].value # e.variables[v].value}

\* C12: for an exclusive group whose members all have a single-leaf
\* threshold trigger on one variable with operators in {<, <=} (resp.
\* {>, >=}), after every setVariable, modifyVariable or tick that changes
\* the variable the active members of the group are exactly the qualifying
\* member of lowest (resp. highest) threshold, or none when none qualifies.
C12_MostSpecificWins ==
    stored => LET groups == exclusiveGroupSets
              IN \A v \in VariableIds \cap DOMAIN entity.variables :
                     \A r \in afterVariableChange(entity, v) : groupsResolved(r, v, groups)

\* C12's case: a write brings the variable to a value where all three
\* members of the "at most" group qualify while another member was active,
\* and the member of lowest threshold alone is active afterwards
C12_Witness ==
    /\ stored
    /\ config.id = "wounds"
    /\ Includes(entity.modifiers, "bruised")
    /\ \E r \in afterVariableChange(entity, "hp") : r.variables["hp"].value = 0 /\ r.modifiers = <<"critical">>

\* the entity with the spy installed
spy(e) == Put(e, "cascades", 0)

\* the entities a variable write hands to checkModifierThresholds
passInputs(e) ==
    {[e EXCEPT !.variables[v].value = x] :
        v \in VariableIds \cap DOMAIN e.variables, x \in {y \in SetValues : y >= 0}}

\* the modifiers a pass applied or removed
passChanges(x, out) ==
    (SeqToSet(out.modifiers) \ SeqToSet(x.modifiers)) \cup (SeqToSet(x.modifiers) \ SeqToSet(out.modifiers))

\* the rates recalculateRates gives once every change of the pass is made
ratesAfterChanges(x, out) ==
    ratesOf(recalculateRates([x EXCEPT !.modifiers = out.modifiers, !.modifierStates = out.modifierStates]))

passRunsOneCascade(x, out) ==
    IF passChanges(x, out) = {}
    THEN out = spy(x)
    ELSE out.cascades = 1 /\ ratesOf(out) = ratesAfterChanges(x, out)

\* C13: a checkModifierThresholds pass that applies and/or removes k >= 1
\* modifiers runs the cascade triple exactly once, after the last change,
\* and the resulting currentRate reflects all k changes; a pass that changes
\* no modifier runs no cascade.
C13_PassRunsOneCascade ==
    stored => \A x \in passInputs(entity) : passRunsOneCascade(x, checkModifierThresholds(spy(x), now))

\* C13's case: one pass applies two additive rate modifiers (hale +2,
\* alert -1 on a base rate of -1) and the triple has run once
C13_Witness ==
    /\ stored
    /\ config.id = "vigor"
    /\ entity.modifiers = << >>
    /\ \E x \in passInputs(entity) :
          LET out == checkModifierThresholds(spy(x), now)
          IN out.modifiers = <<"hale", "alert">> /\ out.cascades = 1 /\ out.variables["hp"].currentRate = 0

\* the number of cascade runs of each public mutation callable on e, seen
\* by the spy
mutationCascades(e) ==
    {tick(spy(e), d, now).cascades : d \in TickSeconds}
    \cup {r.cascades : r \in {x \in {setVariable(spy(e), v, y, now) : v \in VariableIds \cap DOMAIN e.variables, y \in SetValues} :
                                x.variables # e.variables}}
    \cup {r.cascades : r \in {x \in {modifyVariable(spy(e), v, d, now) : v \in VariableIds \cap DOMAIN e.variables, d \in Deltas} :
                                x.variables # e.variables}}
    \cup {applyModifier(spy(e), m, getNode(m).config, now).cascades : m \in ModifierIds}
    \cup {removeModifier(spy(e), m).cascades : m \in {x \in ModifierIds : Includes(e.modifiers, x)}}
    \cup {emActivateTrait(spy(e), t).cascades : t \in {x \in TraitIds : activateTraitOk(e, x)}}
    \cup {emDeactivateTrait(spy(e), t).cascades : t \in {x \in TraitIds : deactivateTraitOk(e, x)}}

\* C14: within a single public mutation (tick, setVariable, modifyVariable,
\* applyModifier, removeModifier, activateTrait, deactivateTrait) the cascade
\* triple runs exactly once.
C14_OneCascadePerMutation ==
    stored => mutationCascades(entity) \subseteq {1}

\* a threshold trait is active on e
traitActive(e, trait) == Includes(LayerActive(e, Get(trait.config, "layerId", "undefined")), trait.id)

\* trait was inactive before the operation and its trigger passes on the new
\* value of v
dueIn(e, r, v, trait) == ~traitActive(e, trait) /\ evaluateThreshold(r.variables[v].value, trait.config.selection.trigger)

\* trait was active before the operation and its autoRemove passes on the
\* new value of v
dueOut(e, r, v, trait) ==
    /\ traitActive(e, trait)
    /\ Has(trait.config.selection, "autoRemove")
    /\ evaluateThreshold(r.variables[v].value, trait.config.selection.autoRemove)

\* another threshold trait bound to v came in with the operation and lists
\* trait in its replaces
replacedInSameCheck(e, r, v, trait) ==
    \E u \in SeqToSet(thresholdTraitsByVar(v)) :
        /\ u.id # trait.id
        /\ dueIn(e, r, v, u)
        /\ traitActive(r, u)
        /\ Includes(Get(u.config.selection, "replaces", << >>), trait.id)

requiredId(req) ==
    IF Has(req, "operator") \/ Has(req, "condition") THEN ""
    ELSE IF Has(req, "string") THEN req.string
    ELSE IF Has(req, "item") THEN req.item
    ELSE IF Has(req, "trait") THEN req.trait
    ELSE IF Has(req, "modifier") THEN req.modifier
    ELSE Get(req, "id", "")

\* a compound of requirementLogic 'all' whose requirements are all trait or
\* modifier ids
traitModifierCompound(c) ==
    /\ Get(c.config, "requirementLogic", "all") = "all"
    /\ Len(Get(c.config, "requires", << >>)) >= 1
    /\ \A i \in DOMAIN c.config.requires : requiredId(c.config.requires[i]) \in TraitIds \cup ModifierIds

\* the ids active on e: applied modifiers and the traits of every layer
activeIds(e) == SeqToSet(e.modifiers) \cup UNION {SeqToSet(e.layers[l].active) : l \in DOMAIN e.layers}

\* the entity after each applyModifier, removeModifier, activateTrait and
\* deactivateTrait call that takes effect
afterToggle(e) ==
    {applyModifier(e, m, getNode(m).config, now) : m \in ModifierIds}
    \cup {removeModifier(e, m) : m \in {x \in ModifierIds : Includes(e.modifiers, x)}}
    \cup {emActivateTrait(e, t) : t \in {x \in TraitIds : activateTraitOk(e, x)}}
    \cup {emDeactivateTrait(e, t) : t \in {x \in TraitIds : deactivateTraitOk(e, x)}}

goblinRoundTrip(m) ==
    LET first == acquire(m, EnemyGoblin, NoPoolId)
        second == acquire(first, EnemyGoblin, NoPoolId)
    IN release(release(second, first.returned.id, NoPoolId), second.returned.id, NoPoolId)

\* a pool `enemies` whose rules match enemy_*, with room for two entities, all
\* pools empty and none in use, and room in storage for the two entities
enemiesPoolReady(m) ==
    /\ "enemies" \in DOMAIN m.pools
    /\ m.pools["enemies"].rules = EnemyRules
    /\ m.pools["enemies"].config.maxSize >= 2
    /\ \A p \in DOMAIN m.pools : m.pools[p].entities = << >> /\ m.pools[p].stats.inUse = 0
    /\ m.stored = {}
    /\ m.maxEntities # NoLimit => Cardinality(m.stored) + 2 <= m.maxEntities

\* C17: with a pool `enemies` whose rules match preset enemy_*, after two
\* acquire('enemy_goblin') calls without targetPoolId and the release of both
\* entities, getPoolStats('enemies') reports available = 2 and inUse = 0, and
\* a third acquire('enemy_goblin') without targetPoolId takes its entity out
\* of that pool (fromPool is true, `enemies` is back to one entity) and no
\* pool's totalCreated increases.
C17_PoolRoundTrip ==
    enemiesPoolReady(mgr) =>
        LET after == goblinRoundTrip(begin(mgr))
            third == acquire(begin(after), EnemyGoblin, NoPoolId)
        IN /\ getPoolStats(after, "enemies").available = 2
           /\ getPoolStats(after, "enemies").inUse = 0
           /\ \E i \in DOMAIN third.emitted :
                  third.emitted[i].type = "entityAcquired" /\ third.emitted[i].fromPool
           /\ Len(third.pools["enemies"].entities) = 1
           /\ \A p \in DOMAIN third.pools : third.pools[p].stats.totalCreated = after.pools[p].stats.totalCreated

\* ---- C18 ----
\* the stored entities whose poolId is p
storedIn(m, p) == {id \in m.stored : m.objects[id].poolId = p}

inUseCountsStored(m) == \A p \in DOMAIN m.pools : m.pools[p].stats.inUse = Cardinality(storedIn(m, p))

\* the manager when acquire, release or moveToPool returns; entityAcquired
\* and entityReleased are emitted after the call's last write to the pools,
\* the entity and the tables
afterAcquireReleaseMove(m) ==
    {acquire(m, preset, targetPoolId) : preset \in AcquirePresets, targetPoolId \in PoolTargets}
    \cup {release(m, entityId, targetPoolId) : entityId \in KnownIds(m), targetPoolId \in PoolTargets}
    \cup {moveToPool(m, entityId, targetPoolId) : entityId \in KnownIds(m), targetPoolId \in {DefaultPoolId, "enemies"}}

\* C18: when acquire, release or moveToPool returns (and at the entityAcquired
\* or entityReleased emission that ends the call), each pool's stats.inUse
\* equals the number of stored entities whose poolId is that pool, given that
\* it did before the call; also when acquire assigns the entity to a
\* rule-matched pool other than the one it was taken from or created in.
C18_InUseCountsStored ==
    inUseCountsStored(mgr) => \A r \in afterAcquireReleaseMove(begin(mgr)) : inUseCountsStored(r)

\* ---- C19 ----
withinMaxSize(m) == \A p \in DOMAIN m.pools : Len(m.pools[p].entities) <= m.pools[p].config.maxSize

\* the pool a release of entityId would push onto
releasePool(m, entityId, targetPoolId) ==
    LET poolId == releasePoolId(m, m.objects[entityId], targetPoolId)
    IN IF poolId \in DOMAIN m.pools THEN poolId ELSE DefaultPoolId

\* a release into a pool that already holds maxSize entities
releaseIntoFull(m, entityId, targetPoolId) ==
    /\ entityId \in m.stored
    /\ Len(m.pools[releasePool(m, entityId, targetPoolId)].entities)
           >= m.pools[releasePool(m, entityId, targetPoolId)].config.maxSize

\* the release adds the entity to no pool, returns false and emits
\* entityReleased with toPool = false
dropsEntity(m, r, entityId) ==
    /\ \A p \in DOMAIN m.pools : r.pools[p].entities = m.pools[p].entities
    /\ r.returned = [op |-> "release", ok |-> FALSE]
    /\ \E i \in DOMAIN r.emitted :
           /\ r.emitted[i].type = "entityReleased"
           /\ r.emitted[i].entityId = entityId
           /\ ~r.emitted[i].toPool
    /\ \A i \in DOMAIN r.emitted : r.emitted[i].type = "entityReleased" => ~r.emitted[i].toPool

\* the manager after one acquire, release, preWarmPool or removePool
afterAcquireReleaseWarmRemove(m) ==
    {acquire(m, preset, targetPoolId) : preset \in AcquirePresets, targetPoolId \in PoolTargets}
    \cup {release(m, entityId, targetPoolId) : entityId \in KnownIds(m), targetPoolId \in PoolTargets}
    \cup {preWarmPool(m, count, presetId, poolId) :
              count \in {1, 2}, presetId \in {NoPreset, EnemyGoblin}, poolId \in {NoPoolId, "enemies"}}
    \cup {removePool(m, poolId) : poolId \in {DefaultPoolId, "enemies"}}

\* C19: acquire, release, preWarmPool and removePool, none of which changes a
\* maxSize, leave every pool with at most maxSize entities when every pool
\* had at most maxSize entities before; and a release into a pool that
\* already holds maxSize entities adds the entity to no pool, returns false
\* and emits entityReleased with toPool = false.
C19_PoolsWithinMaxSize ==
    withinMaxSize(mgr) =>
        /\ \A r \in afterAcquireReleaseWarmRemove(begin(mgr)) : withinMaxSize(r)
        /\ \A entityId \in KnownIds(mgr), targetPoolId \in PoolTargets :
               releaseIntoFull(mgr, entityId, targetPoolId)
                   => dropsEntity(mgr, release(begin(mgr), entityId, targetPoolId), entityId)

\* a stored entity whose pool, `enemies`, is full: its release is refused;
\* and a pre-warm of two stops at the one entity the pool has room for
C19_Witness ==
    /\ "enemies" \in DOMAIN mgr.pools
    /\ Len(mgr.pools["enemies"].entities) = mgr.pools["enemies"].config.maxSize
    /\ \E entityId \in mgr.stored :
           /\ mgr.objects[entityId].poolId = "enemies"
           /\ releaseIntoFull(mgr, entityId, NoPoolId)
           /\ release(begin(mgr), entityId, NoPoolId).returned = [op |-> "release", ok |-> FALSE]
    /\ Len(mgr.pools[DefaultPoolId].entities) + 1 = mgr.pools[DefaultPoolId].config.maxSize
    /\ Len(preWarmPool(mgr, 2, EnemyGoblin, NoPoolId).pools[DefaultPoolId].entities) = mgr.pools[DefaultPoolId].config.maxSize

\* ---- C20 ----
\* how many pool places hold the entity of this id
timesPooled(m, entityId) ==
    Cardinality({at \in UNION {{<<p, i>> : i \in DOMAIN m.pools[p].entities} : p \in DOMAIN m.pools} :
                     m.pools[at[1]].entities[at[2]].id = entityId})

\* the entity is in no table of the manager
untracked(m, entityId) ==
    /\ entityId \notin m.stored
    /\ entityId \notin m.active
    /\ entityId \notin DOMAIN m.history
    /\ \A g \in DOMAIN m.groups : entityId \notin m.groups[g]

pooledEntitiesApart(m) ==
    \A p \in DOMAIN m.pools : \A i \in DOMAIN m.pools[p].entities :
        /\ untracked(m, m.pools[p].entities[i].id)
        /\ timesPooled(m, m.pools[p].entities[i].id) = 1

\* C20: an entity that resides in a pool's entities list is in neither
\* stored nor active nor any group nor the history table, and it is in
\* exactly one pool exactly once; releasing the same entity a second time
\* returns false and leaves every pool as the first release left it.
C20_PooledEntitiesApart ==
    /\ pooledEntitiesApart(mgr)
    /\ \A entityId \in mgr.stored, first \in PoolTargets, second \in PoolTargets :
           LET once == release(begin(mgr), entityId, first)
               twice == release(begin(once), entityId, second)
           IN /\ pooledEntitiesApart(once)
              /\ twice.pools = once.pools
              /\ twice.returned = [op |-> "release", ok |-> FALSE]
              /\ timesPooled(twice, entityId) <= 1

\* an active entity with a snapshot, filed under its configuration's group,
\* whose release puts it into the pool `enemies`
C20_Witness ==
    \E entityId \in mgr.stored \cap mgr.active :
        /\ entityId \in DOMAIN mgr.history
        /\ entityId \in mgr.groups[<<"config", "arena">>]
        /\ LET once == release(begin(mgr), entityId, NoPoolId)
           IN /\ once.returned = [op |-> "release", ok |-> TRUE]
              /\ "enemies" \in DOMAIN once.pools
              /\ timesPooled(once, entityId) = 1
              /\ \E i \in DOMAIN once.pools["enemies"].entities : once.pools["enemies"].entities[i].id = entityId

\* ---- C21 ----
withinStorageLimit(m) == m.maxEntities # NoLimit => Cardinality(m.stored) <= m.maxEntities

\* the manager after one store, activate, spawn or acquire
afterStoreActivateSpawnAcquire(m) ==
    {store(m, newEntity(m.nextId, preset)) : preset \in {NoPreset, EnemyGoblin}}
    \cup {activate(m, newEntity(m.nextId, NoPreset))}
    \cup {activate(m, m.objects[id]) : id \in DOMAIN m.objects}
    \cup {spawnStored(m, preset) : preset \in AcquirePresets}
    \cup {acquire(m, call[1], call[2]) : call \in AcquireCalls}

pacified(m) ==
    [m EXCEPT !.listeners = [type \in DOMAIN m.listeners |->
                              [i \in DOMAIN m.listeners[type] |->
                                  [id |-> m.listeners[type][i].id, throws |-> FALSE]]]]

\* the calls the events of one operation owe: for each event in emission
\* order, every callback subscribed to it in subscription order
RECURSIVE owed(_, _)
owed(listeners, events) ==
    IF events = << >> THEN << >>
    ELSE [i \in DOMAIN subscribers(listeners, Head(events).type) |->
              <<subscribers(listeners, Head(events).type)[i].id, Head(events).type>>]
         \o owed(listeners, Tail(events))

\* the manager after each acquire or release it can be asked for, next to the
\* same call made with no callback throwing
loudAndQuiet(m) ==
    {<<acquire(begin(m), call[1], call[2]), acquire(begin(pacified(m)), call[1], call[2])>> :
        call \in AcquireCalls}
    \cup {<<release(begin(m), entityId, targetPoolId), release(begin(pacified(m)), entityId, targetPoolId)>> :
        entityId \in KnownIds(m), targetPoolId \in PoolTargets}

\* C22: when a listener throws during emit, every other listener of the event
\* is still invoked, in subscription order, and the emitting operation ends in
\* the same state with the same return value as if no listener had thrown.
C22_ThrowingListener ==
    \A pair \in loudAndQuiet(mgr) :
        /\ pair[1].invoked = owed(mgr.listeners, pair[1].emitted)
        /\ pair[1].invoked = pair[2].invoked
        /\ [pair[1] EXCEPT !.listeners = pair[2].listeners] = pair[2]

\* the thrower subscribed to entityAcquired ahead of the two others, and an
\* acquire that calls all three in that order
C22_Witness ==
    /\ subscribers(mgr.listeners, "entityAcquired")
         = <<[id |-> "thrower", throws |-> TRUE], [id |-> "logger", throws |-> FALSE],
             [id |-> "counter", throws |-> FALSE]>>
    /\ \E call \in AcquireCalls :
         LET r == acquire(begin(mgr), call[1], call[2]) IN
           /\ r.returned.id # 0
           /\ r.invoked = <<<<"thrower", "entityAcquired">>, <<"logger", "entityAcquired">>,
                            <<"counter", "entityAcquired">>>>

\* a layer generate rolls: timing.rollAt is spawn or create
isSpawnTimeLayer(layer) == Get(Get(layer.config, "timing", << >>), "rollAt", "") \in {"spawn", "create"}

\* the traits active in e that belong to spawn-time layers ordered before attr
earlierTraits(e, attr) ==
    UNION {SeqToSet(LayerActive(e, layer.id)) :
              layer \in {l \in SeqToSet(getNodesByType("layer")) :
                            isSpawnTimeLayer(l) /\ Get(l.config, "order", 0) < Get(attr.config, "spawnOrder", 0)}}

\* a bound of attr's range moved by the value_modifier relationships, in
\* declaration order, whose source is one of `sources`
RECURSIVE boundFrom(_, _, _, _)
boundFrom(attr, sources, i, bound) ==
    IF i > Len(config.relationships) THEN bound
    ELSE LET rel == config.relationships[i]
         IN IF rel.targetId = attr.id /\ rel.type = "value_modifier" /\ rel.sourceId \in sources
            THEN boundFrom(attr, sources, i + 1,
                           IF rel.config.operation = "multiply" THEN bound * rel.config.value
                           ELSE bound + rel.config.value)
            ELSE boundFrom(attr, sources, i + 1, bound)

rolledAfterEarlierLayers(e) ==
    \A attr \in SeqToSet(getNodesByType("attribute")) :
        /\ attr.id \in DOMAIN e.attributes
        /\ e.attributes[attr.id] >= boundFrom(attr, earlierTraits(e, attr), 1, attr.config.min)
        /\ e.attributes[attr.id] <= boundFrom(attr, earlierTraits(e, attr), 1, attr.config.max)

\* C23: generate rolls every spawn-time layer whose order is below an
\* attribute's spawnOrder before the attribute, so the attribute is rolled in
\* its range moved by the value_modifier of every trait those layers
\* activated, and by no trait of a layer of greater order.
C23_SpawnOrder == [][Spawn => rolledAfterEarlierLayers(entity')]_vars

\* a generated entity whose might was rolled above its own range by the
\* trait of the earlier layer, with the later layer's trait active as well
C23_Witness ==
    /\ stored
    /\ config.id = "breed"
    /\ Includes(LayerActive(entity, "size"), "big")
    /\ Includes(LayerActive(entity, "mood"), "angry")
    /\ LayerActive(entity, "gear") = << >>
    /\ entity.attributes = [might |-> 4, speed |-> 3]

\* ids that name no modifier node of the loaded config: a trait, a variable
\* or a layer of the config, and an id that names no node
NonModifierIds == (NodeIds \ ModifierIds) \cup {"ghost"}

\* C24: applyModifier with an id that is no modifier node of the config, or
\* on an unknown entity, returns false and leaves the entity's modifiers,
\* modifier states, rates and compounds as they were.
C24_UnknownModifierRefused ==
    \A modifierId \in NonModifierIds :
        /\ ~engineApplyModifierReturns(stored, modifierId)
        /\ stored =>
             LET r == engineApplyModifier(entity, modifierId, now)
             IN /\ r.modifiers = entity.modifiers
                /\ r.modifierStates = entity.modifierStates
                /\ ratesOf(r) = ratesOf(entity)
                /\ r.compounds = entity.compounds

\* the kinds of node the engine has
NodeKinds == {"attribute", "variable", "context", "layer", "trait", "item", "modifier", "compound", "derived", "action"}

\* no two nodes share an id, every node is of a known kind, and every
\* relationship joins two nodes
wellFormed(cfg) ==
    /\ \A i, j \in DOMAIN cfg.nodes : cfg.nodes[i].id = cfg.nodes[j].id => i = j
    /\ \A i \in DOMAIN cfg.nodes : cfg.nodes[i].type \in NodeKinds
    /\ \A i \in DOMAIN cfg.relationships :
          /\ \E n \in DOMAIN cfg.nodes : cfg.nodes[n].id = cfg.relationships[i].sourceId
          /\ \E n \in DOMAIN cfg.nodes : cfg.nodes[n].id = cfg.relationships[i].targetId

\* C25: loadConfig of a document with a relationship to no node, a node of
\* unknown kind or two nodes with one id fails and leaves the loaded config
\* and its indexes as they were, so the loaded config is never such a document.
C25_InvalidConfigRefused == wellFormed(config)

\* the entity after each operation that re-checks the compounds
afterCompoundCheck(e) ==
    {setVariable(e, v, x, now) : v \in VariableIds \cap DOMAIN e.variables, x \in SetValues}
    \cup {emActivateTrait(e, t) : t \in TraitIds}
    \cup {emDeactivateTrait(e, t) : t \in TraitIds}
    \cup {engineApplyModifier(e, m, now) : m \in ModifierIds}
    \cup {removeModifier(e, m) : m \in ModifierIds}

\* how many events of one type about one compound a pass emitted
compoundEvents(events, type, compoundId) ==
    Cardinality({i \in DOMAIN events : events[i].type = type /\ events[i].compoundId = compoundId})

\* C26: each time a compound enters entity.compounds exactly one
\* compoundActivated event is emitted for it, each time it leaves exactly one
\* compoundDeactivated, and none without such a transition.
C26_CompoundEvents ==
    stored =>
      \A r \in afterCompoundCheck(entity) :
        \A c \in SeqToSet(idsOf(getNodesByType("compound"))) :
          /\ compoundEvents(checkCompoundsEmits(entity), "compoundActivated", c)
               = IF Includes(r.compounds, c) /\ ~Includes(entity.compounds, c) THEN 1 ELSE 0
          /\ compoundEvents(checkCompoundsEmits(entity), "compoundDeactivated", c)
               = IF ~Includes(r.compounds, c) /\ Includes(entity.compounds, c) THEN 1 ELSE 0

\* C27: a modifier whose state is marked static never has expiresAt or
\* ticksRemaining set, whatever threshold checks, ticks and applyModifier
\* calls (refresh re-application included) came before.
C27_StaticNeverExpires ==
    \A m \in DOMAIN entity.modifierStates :
        entity.modifierStates[m].isStatic =>
            /\ entity.modifierStates[m].expiresAt = 0
            /\ ~Has(entity.modifierStates[m], "ticksRemaining")

\* the exclusive groups of the config, as sets of modifier ids
arbitratedGroups ==
    {SeqToSet(collectGroup([group |-> <<k>>, queue |-> <<k>>])) : k \in SeqToSet(exclusiveGroups.keys)}

\* the members of a group whose trigger is met in e
triggered(e, group) ==
    {id \in group : isThresholdModifier(id) /\ evaluateModifierTrigger(e, getNode(id).config.trigger)}

\* the case the specificity rule decides: single-leaf triggers on one
\* variable, all "at most" or all "at least"
specificityApplies(ids) ==
    LET conds(id) == Get(getNode(id).config.trigger, "conditions", << >>)
    IN /\ \A id \in ids : Len(conds(id)) = 1
       /\ \A a, b \in ids : conds(a)[1].target = conds(b)[1].target
       /\ \/ \A id \in ids : conds(id)[1].operator \in {"<=", "<"}
          \/ \A id \in ids : conds(id)[1].operator \in {">=", ">"}

\* the member of ids that comes first in the config's node list
firstDeclared(ids) ==
    config.nodes[CHOOSE i \in DOMAIN config.nodes :
                    /\ config.nodes[i].id \in ids
                    /\ \A j \in DOMAIN config.nodes : config.nodes[j].id \in ids => i <= j].id

\* C28: when several members of an exclusive group qualify and the
\* specificity rule does not apply, the member the threshold pass leaves
\* active is the qualifying member declared first in the config's node list.
C28_FallbackDeclarationOrder ==
    stored =>
      \A x \in passInputs(entity) :
        \A group \in arbitratedGroups :
          (Cardinality(triggered(x, group)) > 1 /\ ~specificityApplies(triggered(x, group)))
            => SeqToSet(checkModifierThresholds(x, now).modifiers) \cap group = {firstDeclared(triggered(x, group))}

\* the threshold modifiers that are static, in no exclusive group and
\* without explicit removeConditions
plainStaticModifiers ==
    {m \in SeqToSet(idsOf(thresholdModifiers)) :
        /\ Get(getNode(m).config.trigger, "static", FALSE)
        /\ m \notin DOMAIN resolveExclusiveGroups(NoEntity)
        /\ Len(Get(getNode(m).config.trigger, "removeConditions", << >>)) = 0}

\* C29: right after checkModifierThresholds every static threshold modifier
\* outside the exclusive groups and without removeConditions is in
\* entity.modifiers exactly when its trigger is true in the resulting
\* state, triggers on another modifier or on a compound included.
C29_StaticFollowsTrigger ==
    stored =>
      \A x \in passInputs(entity) :
        \A m \in plainStaticModifiers :
          Includes(checkModifierThresholds(x, now).modifiers, m)
            <=> evaluateModifierTrigger(checkModifierThresholds(x, now), getNode(m).config.trigger)

\* the threshold modifiers of e are what a threshold pass over e leaves
thresholdsSettled(e) == checkModifierThresholds(e, now).modifiers = e.modifiers

\* the entity after each tick or variable write that changes a variable
afterValueChange(e) ==
    {r \in {tick(e, d, now) : d \in TickSeconds}
           \cup {setVariable(e, v, x, now) : v \in VariableIds, x \in SetValues}
           \cup {modifyVariable(e, v, d, now) : v \in VariableIds, d \in Deltas} :
        r.variables # e.variables}

\* the entity after each action whose cost changes a variable
afterCostDeduction(e) == {r \in {executeAction(e, a) : a \in ActionIds} : r.variables # e.variables}

\* C30: every operation that changes a variable's value (tick,
\* modifyVariable, setVariable and the cost deduction of executeAction) runs
\* checkModifierThresholds before it returns, so the threshold modifiers
\* reflect the new value when the caller regains control.
C30_ThresholdsAfterEveryChange ==
    stored => \A r \in afterValueChange(entity) \cup afterCostDeduction(entity) : thresholdsSettled(r)

\* the modifiers of e that are not static and count ticks
tickCounted(e) ==
    {m \in SeqToSet(e.modifiers) \cap DOMAIN e.modifierStates :
        ~e.modifierStates[m].isStatic /\ Has(e.modifierStates[m], "ticksRemaining")}

\* C31: a non-static modifier applied with durationType 'ticks' and duration
\* N starts with N ticks left, is still in entity.modifiers after a tick that
\* leaves it ticks to go, and is absent when the tick that uses up its last
\* one returns, applied by hand or by a threshold trigger that still passes.
C31_TickCountedExpiry ==
    stored =>
      /\ \A m \in ModifierIds :
           (~Includes(entity.modifiers, m) /\ Get(getNode(m).config, "durationType", "") = "ticks")
             => LET r == engineApplyModifier(entity, m, now)
                IN m \in tickCounted(r) => r.modifierStates[m].ticksRemaining = getNode(m).config.duration
      /\ \A m \in tickCounted(entity), d \in TickSeconds :
           Includes(tick(entity, d, now).modifiers, m) <=> entity.modifierStates[m].ticksRemaining > 1

\* the traits a roll activated: active after it, not before
activatedBy(before, after) == {t \in TraitIds : isNodeActive(after, t) /\ ~isNodeActive(before, t)}

\* a trait a roll may pick, judged on the entity as it was when the roll began
rollable(e, traitId) ==
    /\ ~isNodeActive(e, traitId)
    /\ traitMode(getNode(traitId)) # "threshold"
    /\ checkEligibility(e, getNode(traitId))
    /\ ~hasIncompatibility(e, getNode(traitId))

\* C32: whatever its selection mode, rollLayer activates only traits that,
\* when the roll began, were inactive, not threshold-mode, eligible, and
\* without an active trait in incompatibleWith; this covers every trait of
\* a roll that selects several at once.
C32_RollRespectsFilters ==
    stored => \A l \in LayerIds : \A r \in rollLayer(entity, l) :
                 \A t \in activatedBy(entity, r) : rollable(entity, t)

\* the value a perPoint relationship of a document is to contribute
perPointValue(e, written) ==
    LET sourceValue == getNodeValue(e, written.config.perPointSource)
        max == Get(getNode(written.config.perPointSource).config, "max", 10)
    IN written.config.value * (IF Get(written.config, "invert", FALSE) THEN max - sourceValue ELSE sourceValue)

\* C33: a perPoint relationship loaded through loadConfig contributes
\* value * (max - sourceValue) when the document wrote invert = true and
\* value * sourceValue when it did not.
C33_PerPointInvert ==
    (stored /\ config = loadConfig(DocShy)) =>
        \A i \in DOMAIN DocShy.relationships :
            Get(DocShy.relationships[i].config, "scaling", "flat") = "perPoint"
              => calculateRelationshipValue(entity, config.relationships[i]) = perPointValue(entity, DocShy.relationships[i])

\* value, baseRate, min and max of every variable
variableSetup(e) ==
    [v \in DOMAIN e.variables |-> [value |-> e.variables[v].value, baseRate |-> e.variables[v].baseRate,
                                   min |-> e.variables[v].min, max |-> e.variables[v].max]]

\* C34: an entity acquired from a non-empty pool has, for every variable,
\* the value, baseRate, min and max of an entity freshly generated under the
\* same config, also for variables whose config gives no initial.
C34_RecycledVariablesAsGenerated ==
    stored => \A r \in recycled(entity), g \in generate(NoOverrides) : variableSetup(r) = variableSetup(g)

\* C39: immediately after acquire hands a pooled entity out again, every
\* action's cooldownRemaining is 0, so an action executed before the release
\* is available without waiting out the old cooldown.
C39_RecycledCooldownsCleared ==
    stored => \A r \in recycled(entity) : \A a \in DOMAIN r.actions : r.actions[a].cooldownRemaining = 0

\* C35: a shrink happens no sooner than shrinkDelay after the pool's latest
\* release, and leaves max(10, available / 2) entities, never fewer than 10.
C35_ShrinkAfterQuiet ==
    \A i \in DOMAIN mgr.shrunk :
        LET s == mgr.shrunk[i] IN
        /\ s.at - s.releasedAt >= mgr.pools[s.poolId].config.shrinkDelay
        /\ s.after = Max2(10, s.before \div 2)
        /\ s.after >= 10

\* the listeners tried: one applies a modifier to the other entity, one
\* runs the threshold pass on it
BatchListeners ==
    {[kind |-> "applyOther", modifierId |-> m] : m \in ModifierIds} \cup {[kind |-> "checkOther", modifierId |-> ""]}

\* the pass wrote to its entity
passChanged(e, r) == r.e.modifiers # e.modifiers

\* C36: when a modifierApplied/modifierRemoved listener writes to another
\* entity or runs a nested checkModifierThresholds during the batch, every
\* entity written to has had the cascade run on it after its last write by
\* the time the pass returns, and the pass runs its own cascade once.
C36_BatchCoversListenerWrites ==
    stored => \A other \in generate(NoOverrides), listener \in BatchListeners :
                 LET r == checkModifierThresholdsListening(entity, other, listener, now)
                 IN passChanged(entity, r) => (~r.stale /\ ~r.otherStale /\ r.e.cascades = 1)

\* C37: every entity id in the active set is in the stored set, also after
\* store refused an entity because maxEntities was reached.
C37_ActiveAreStored == mgr.active \subseteq mgr.stored

\* C38: entity.modifiers holds no modifier id twice, and the stacks count of
\* a stacking modifier stays between 1 and its maxStacks.
C38_ModifiersOnceEach ==
    stored =>
      /\ \A i, j \in DOMAIN entity.modifiers : entity.modifiers[i] = entity.modifiers[j] => i = j
      /\ \A m \in DOMAIN entity.modifierStates :
             (HasNode(m) /\ Get(getNode(m).config, "stacking", "") = "stack" /\ Has(getNode(m).config, "maxStacks"))
               => (entity.modifierStates[m].stacks >= 1 /\ entity.modifierStates[m].stacks <= getNode(m).config.maxStacks)

\* how often a callback was invoked by the emit
timesInvoked(invoked, id) == Cardinality({i \in DOMAIN invoked : invoked[i] = id})

\* C40: when listeners unsubscribe themselves or one another during an
\* emit, every listener that was subscribed when the emit began and was not
\* unsubscribed during it has been invoked exactly once.
C40_UnsubscribeDuringEmit ==
    mgr.returned = [op |-> "emit"] =>
        \A i \in DOMAIN mgr.listeners : timesInvoked(mgr.invoked, mgr.listeners[i].id) = 1

====
